---------------------------- MODULE Spec2Model ----------------------------
(***************************************************************************)
(* KBO schedule pipeline, chat relay and forum of the WePlay backend.      *)
(*                                                                         *)
(*   src/open/backend/server.js  (final revision, lines 1411-2034)         *)
(*       fetchRawKboFromAiScore, fetchKboNormalized, normalizeDate,        *)
(*       GET /api/games/kbo/naver, GET /api/games/kbo/aiscore,             *)
(*       io.on("connection"), GET /api/chat/history                        *)
(*   src/unnamed/part_000                                                  *)
(*       crawlNaverKBO_HTML, GET /api/games/kbo/html,                      *)
(*       io.on("connection") without history                               *)
(*   the forum handlers of all revisions of both files: /api/register,     *)
(*       /api/login, /api/posts/:id, /api/posts/popular,                   *)
(*       /api/posts/:id/like, /api/comments, /api/user/password,           *)
(*       /api/user/delete                                                  *)
(*                                                                         *)
(* A JavaScript string is a sequence of one-character strings.             *)
(***************************************************************************)
EXTENDS Integers, Sequences, FiniteSets, Bags, TLC

VARIABLES
    srcText,      \* SpecExtract: the body text handed to the text-pattern extractor
    extracted,    \* SpecExtract: NotYet, or the games array the extractor returned
    inflight,     \* Spec: bag of requests suspended on their outbound GET
    last,         \* Spec: the request answered last, with its fetch outcome and response
    received,     \* Spec: number of requests received so far
    fetches,      \* Spec: number of outbound GETs issued so far
    chatHistory,  \* SpecChat: the chatHistory array
    connected,    \* SpecChat: the sockets connected to io
    emitted,      \* SpecChat: the payloads io.emit has broadcast, in order
    sent,         \* SpecChat: what the server sent last (a broadcast or a response)
    events,       \* SpecChat: number of chat:message events received so far
    running,      \* SpecChat: the server process is alive
    revision,     \* SpecChat: which revision of the chat handler runs
    build,        \* forum: which revision of the forum handlers runs
    schema,       \* forum: what the database enforces beside the handlers' queries
    users,        \* forum: the rows of table users
    posts,        \* forum: the rows of table posts
    post_likes,   \* forum: the rows of table post_likes (a bag: no key is declared)
    comments,     \* forum: the rows of table comments
    autoIncrement,\* forum: the next AUTO_INCREMENT id of users and of comments
    calls         \* forum: the requests received, each with its handler's position
                  \*        and, once answered, its response

scheduleVars == <<srcText, extracted, inflight, last, received, fetches>>

chatVars == <<chatHistory, connected, emitted, sent, events, running, revision>>

forumVars == <<build, schema, users, posts, post_likes, comments, autoIncrement, calls>>

vars == <<srcText, extracted, inflight, last, received, fetches,
          chatHistory, connected, emitted, sent, events, running, revision,
          build, schema, users, posts, post_likes, comments, autoIncrement, calls>>

---------------------------------------------------------------------------
(* Characters and character classes of the JavaScript regular expression.  *)

SP == " "
TAB == "\t"
LF == "\n"
CR == "\r"

\* \d without the unicode flag: ASCII digits only.
Digits == <<"0", "1", "2", "3", "4", "5", "6", "7", "8", "9">>

IsDigit(c) == c \in {"0", "1", "2", "3", "4", "5", "6", "7", "8", "9"}

\* the line terminators `.` refuses (LF, CR; U+2028/U+2029 are not in the alphabet)
LineTerminators == {LF, CR}

\* \s and String.prototype.trim: white space and line terminators
WhiteSpace == {SP, TAB, LF, CR}

InClass(c, cls) ==
    CASE cls = "d" -> IsDigit(c)
      [] cls = "s" -> c \in WhiteSpace
      [] cls = "." -> c \notin LineTerminators
      [] OTHER -> c = cls

---------------------------------------------------------------------------
(* String primitives used by the extractor.                                *)

\* position of the first occurrence of c in s at or after i; Len(s) + 1 when none
RECURSIVE IndexFrom(_, _, _)
IndexFrom(s, c, i) ==
    IF i > Len(s) \/ s[i] = c THEN i ELSE IndexFrom(s, c, i + 1)

\* String.prototype.split(sep) for a one-character separator
RECURSIVE Split(_, _)
Split(s, sep) ==
    LET i == IndexFrom(s, sep, 1)
    IN  IF i > Len(s) THEN <<s>>
        ELSE <<SubSeq(s, 1, i - 1)>> \o Split(SubSeq(s, i + 1, Len(s)), sep)

\* first position at or after i (last position at or before j) holding no white space
RECURSIVE SkipForward(_, _), SkipBackward(_, _)
SkipForward(s, i) ==
    IF i > Len(s) \/ s[i] \notin WhiteSpace THEN i ELSE SkipForward(s, i + 1)

SkipBackward(s, j) ==
    IF j < 1 \/ s[j] \notin WhiteSpace THEN j ELSE SkipBackward(s, j - 1)

\* String.prototype.trim
Trim(s) == SubSeq(s, SkipForward(s, 1), SkipBackward(s, Len(s)))

\* Array.prototype.map over a sequence is written [i \in 1..Len(a) |-> f(a[i])].

\* text.split("\n").map(v => v.trim()).filter(v => v.length > 0)
Lines(text) ==
    LET parts == Split(text, LF)
        trimmed == [i \in 1..Len(parts) |-> Trim(parts[i])]
    IN  SelectSeq(trimmed, LAMBDA v : Len(v) > 0)

\* Number(s) for a string of decimal digits
RECURSIVE ToNumber(_)
ToNumber(s) ==
    IF s = <<>> THEN 0
    ELSE 10 * ToNumber(SubSeq(s, 1, Len(s) - 1))
         + ((CHOOSE i \in 1..10 : Digits[i] = s[Len(s)]) - 1)

\* String(n) for a non-negative integer, as a template literal renders it
RECURSIVE NumberToString(_)
NumberToString(n) ==
    IF n < 10 THEN <<Digits[n + 1]>>
    ELSE NumberToString(n \div 10) \o <<Digits[(n % 10) + 1]>>

\* String.prototype.startsWith
StartsWith(s, p) == Len(p) <= Len(s) /\ SubSeq(s, 1, Len(p)) = p

---------------------------------------------------------------------------
(* The regular expression                                                  *)
(*   /^(\d{4})\/(\d{2})\/(\d{2})\s+(.+?)\s+(.+?)\s+(\d+)\s+(\d+)$/         *)
(* as its sequence of quantified atoms, matched by backtracking in the     *)
(* order the engine tries: a greedy atom from its longest run down, a lazy *)
(* atom from its shortest run up, leftmost atoms varied last.              *)

Unbounded == 0 - 1

Atom(cls, lo, hi, greedy) == [cls |-> cls, lo |-> lo, hi |-> hi, greedy |-> greedy]

\* the pattern with (\d) in place of the first (\d+)
regexOneScoreDigit ==
    << Atom("d", 4, 4, TRUE), Atom("/", 1, 1, TRUE),
       Atom("d", 2, 2, TRUE), Atom("/", 1, 1, TRUE),
       Atom("d", 2, 2, TRUE),
       Atom("s", 1, Unbounded, TRUE), Atom(".", 1, Unbounded, FALSE),
       Atom("s", 1, Unbounded, TRUE), Atom(".", 1, Unbounded, FALSE),
       Atom("s", 1, Unbounded, TRUE), Atom("d", 1, 1, TRUE),
       Atom("s", 1, Unbounded, TRUE), Atom("d", 1, Unbounded, TRUE) >>

regex ==
    << Atom("d", 4, 4, TRUE), Atom("/", 1, 1, TRUE),
       Atom("d", 2, 2, TRUE), Atom("/", 1, 1, TRUE),
       Atom("d", 2, 2, TRUE),
       Atom("s", 1, Unbounded, TRUE), Atom(".", 1, Unbounded, FALSE),
       Atom("s", 1, Unbounded, TRUE), Atom(".", 1, Unbounded, FALSE),
       Atom("s", 1, Unbounded, TRUE), Atom("d", 1, Unbounded, TRUE),
       Atom("s", 1, Unbounded, TRUE), Atom("d", 1, Unbounded, TRUE) >>

\* positions of the capture groups y, mm, dd, t1, t2, s1, s2 among the atoms
GroupAtom == <<1, 3, 5, 7, 9, 11, 13>>

NoMatch == [ok |-> FALSE, ends |-> <<>>]

\* number of consecutive characters of class cls starting at position i
RECURSIVE RunLen(_, _, _)
RunLen(s, i, cls) ==
    IF i > Len(s) \/ ~InClass(s[i], cls) THEN 0 ELSE 1 + RunLen(s, i + 1, cls)

\* MatchFrom: atoms k.. of the pattern against s from position i, `$` at the end.
\* The result carries, for each atom matched, the position after it.
RECURSIVE MatchFrom(_, _, _), TryCount(_, _, _, _, _)
MatchFrom(s, k, i) ==
    IF k > Len(regex) THEN [ok |-> (i = Len(s) + 1), ends |-> <<>>]
    ELSE LET a == regex[k]
             run == RunLen(s, i, a.cls)
             top == IF a.hi = Unbounded \/ run < a.hi THEN run ELSE a.hi
         IN  IF top < a.lo THEN NoMatch
             ELSE TryCount(s, k, i, IF a.greedy THEN top ELSE a.lo, top)

TryCount(s, k, i, n, top) ==
    LET a == regex[k]
        rest == MatchFrom(s, k + 1, i + n)
    IN  IF rest.ok THEN [ok |-> TRUE, ends |-> <<i + n>> \o rest.ends]
        ELSE IF a.greedy
             THEN (IF n - 1 >= a.lo THEN TryCount(s, k, i, n - 1, top) ELSE NoMatch)
             ELSE (IF n + 1 <= top THEN TryCount(s, k, i, n + 1, top) ELSE NoMatch)

\* line.match(regex): ok, and the seven captured groups
Match(line) ==
    LET r == MatchFrom(line, 1, 1)
        from(k) == IF k = 1 THEN 1 ELSE r.ends[k - 1]
    IN  IF ~r.ok THEN [ok |-> FALSE, groups |-> <<>>]
        ELSE [ok |-> TRUE,
              groups |-> [g \in 1..7 |->
                            SubSeq(line, from(GroupAtom[g]), r.ends[GroupAtom[g]] - 1)]]

---------------------------------------------------------------------------
(* fetchRawKboFromAiScore, after the GET: body text -> games array.        *)

Dash == "-"

\* the object pushed for a matching line
GameOf(m) ==
    [date   |-> m.groups[1] \o <<Dash>> \o m.groups[2] \o <<Dash>> \o m.groups[3],
     team1  |-> m.groups[4],
     team2  |-> m.groups[5],
     score1 |-> ToNumber(m.groups[6]),
     score2 |-> ToNumber(m.groups[7])]

\* the loop with `break` in place of `continue`
RECURSIVE ForOfLinesBreak(_, _)
ForOfLinesBreak(ls, games) ==
    IF ls = <<>> THEN games
    ELSE LET m == Match(Head(ls))
         IN  IF ~m.ok THEN games
             ELSE ForOfLinesBreak(Tail(ls), Append(games, GameOf(m)))

\* for (const line of lines) { const m = line.match(regex); if (!m) continue; games.push({...}) }
RECURSIVE ForOfLines(_, _)
ForOfLines(ls, games) ==
    IF ls = <<>> THEN games
    ELSE LET m == Match(Head(ls))
         IN  IF ~m.ok THEN ForOfLines(Tail(ls), games)
             ELSE ForOfLines(Tail(ls), Append(games, GameOf(m)))

\* the try block after `await axios.get`: text of <body> -> games
ExtractGames(text) == ForOfLines(Lines(text), <<>>)

---------------------------------------------------------------------------
(* Inputs of the extractor.                                                *)

\* longest enumerated remainder of a line after its date
MaxTail == 9
\* most lines of an enumerated page
MaxLines == 3

TailAlphabet == {SP, "a", "1"}

Tails == UNION {[1..n -> TailAlphabet] : n \in 0..MaxTail}

Date1031 == <<"2", "0", "2", "5", "/", "1", "0", "/", "3", "1">>
Date1101 == <<"2", "0", "2", "5", "/", "1", "1", "/", "0", "1">>

\* "2025/10/31 Hanwha Eagles LG Twins 1 4"
ExampleLine ==
    Date1031 \o <<SP, "H", "a", "n", "w", "h", "a", SP, "E", "a", "g", "l", "e", "s",
                  SP, "L", "G", SP, "T", "w", "i", "n", "s", SP, "1", SP, "4">>

\* "2025/11/01 KIA Doosan 10 07"
KiaLine ==
    Date1101 \o <<SP, "K", "I", "A", SP, "D", "o", "o", "s", "a", "n",
                  SP, "1", "0", SP, "0", "7">>

\* "KBO Schedule"
HeaderLine == <<"K", "B", "O", SP, "S", "c", "h", "e", "d", "u", "l", "e">>

\* lines outside the enumerated alphabet: other separators, malformed dates,
\* non-numeric scores, text before or after the record
SpecialLines ==
    { ExampleLine, KiaLine, HeaderLine,
      <<SP, TAB>> \o KiaLine \o <<SP, CR>>,
      Date1031 \o <<TAB, "a", SP, SP, "b", TAB, "3", CR, "1", "2">>,
      Date1031 \o <<SP, "a", CR, "b", SP, "c", SP, "3", SP, "4">>,
      Date1031 \o <<SP, "a", CR, "b", SP, "c", CR, "d", SP, "3", SP, "4">>,
      Date1031 \o <<SP, "a", SP, "b", SP, "3", SP, "x">>,
      Date1031 \o <<SP, "a", SP, "b", SP, "3", ":", "4">>,
      Date1031 \o <<SP, "a", SP, "b", SP, "-", "3", SP, "4">>,
      Date1031 \o <<SP, "7", SP, "8", SP, "9", SP, "5", SP, "6">>,
      <<"2", "0", "2", "5", "-", "1", "0", "-", "3", "1", SP, "a", SP, "b", SP, "3", SP, "4">>,
      <<"2", "5", "/", "1", "0", "/", "3", "1", SP, "a", SP, "b", SP, "3", SP, "4">>,
      <<"2", "0", "2", "5", "/", "1", "0", "/", "3", SP, "a", SP, "b", SP, "3", SP, "4">>,
      <<"x">> \o Date1031 \o <<SP, "a", SP, "b", SP, "3", SP, "4">>,
      <<>> }

LineInputs == {Date1031 \o t : t \in Tails} \cup SpecialLines

\* lines a page is assembled from: matching ones and junk
PageLines ==
    { ExampleLine, KiaLine, HeaderLine,
      Date1031 \o <<SP, "a", SP, "b", SP, "3", SP, "x">>,
      <<SP, TAB>> }

\* lines.join("\n"): the body text of a page with these lines
RECURSIVE JoinLines(_)
JoinLines(ls) ==
    IF ls = <<>> THEN <<>>
    ELSE IF Len(ls) = 1 THEN ls[1]
    ELSE ls[1] \o <<LF>> \o JoinLines(Tail(ls))

PageInputs == {JoinLines(ls) : ls \in UNION {[1..n -> PageLines] : n \in 0..MaxLines}}

---------------------------------------------------------------------------
(* Content the two third-party sources may serve.                          *)

\* most lines (or schedule items) of a served page
MaxPageItems == 2

\* "2025/10/31 LG KT 1 4", "2025/11/01 KIA NC 10 07", "KBO"
SourceLines ==
    { Date1031 \o <<SP, "L", "G", SP, "K", "T", SP, "1", SP, "4">>,
      Date1101 \o <<SP, "K", "I", "A", SP, "N", "C", SP, "1", "0", SP, "0", "7">>,
      <<"K", "B", "O">> }

AiScoreBodies ==
    {JoinLines(ls) : ls \in UNION {[1..n -> SourceLines] : n \in 0..MaxPageItems}}

\* the games of each body the source serves, each computed once:
\* GamesOfBody[body] = ExtractGames(body)
GamesOfBody == [body \in AiScoreBodies |-> ExtractGames(body)]

\* lines 1550-1578: cheerio text of <body>, split, match, push
ParseBody(text) ==
    IF text \in AiScoreBodies THEN GamesOfBody[text] ELSE ExtractGames(text)

---------------------------------------------------------------------------
(* Query parameters, fetch outcomes and responses of the schedule          *)
(* endpoints.                                                              *)

\* req.query.<name>: undefined when the parameter is absent, else its string
Undefined == [defined |-> FALSE, str |-> <<>>]

Str(s) == [defined |-> TRUE, str |-> s]

\* JavaScript truthiness of such a value: undefined and "" are falsy
Truthy(v) == v.defined /\ v.str # <<>>

Oct31 == <<"2", "0", "2", "5", "-", "1", "0", "-", "3", "1">>
Nov01 == <<"2", "0", "2", "5", "-", "1", "1", "-", "0", "1">>
Oct == <<"2", "0", "2", "5", "-", "1", "0">>

\* "20251031": a date the client wrote without dashes
Oct31Compact == <<"2", "0", "2", "5", "1", "0", "3", "1">>

DateParams == {Undefined, Str(<<>>), Str(Oct31), Str(Nov01), Str(Oct31Compact)}

MonthParams == {Undefined, Str(Oct)}

\* local dates the server clock may show
Clock == {[y |-> 2025, m |-> 10, d |-> 31], [y |-> 2025, m |-> 11, d |-> 1]}

\* String(n).padStart(2, "0")
PadStart2(n) == IF n < 10 THEN <<"0">> \o NumberToString(n) ELSE NumberToString(n)

\* `${y}-${m}-${d}` of normalizeDate for the local date `now`
TodayString(now) ==
    NumberToString(now.y) \o <<Dash>> \o PadStart2(now.m) \o <<Dash>> \o PadStart2(now.d)

\* function normalizeDate(dateParam): the strings it may return; it reads the
\* clock (new Date()) only when dateParam is falsy
normalizeDate(dateParam) ==
    IF ~Truthy(dateParam) THEN {TodayString(now) : now \in Clock} ELSE {dateParam.str}

\* timeout option of the axios.get call of each endpoint (0: none, the axios default)
AiScoreTimeoutMs == 10000

TimeoutMs(ep) == IF ep = "html" THEN 0 ELSE AiScoreTimeoutMs

\* how an axios.get promise can reject; cheerio.load throwing on a body that is
\* no markup takes the same path, being inside the same try
Causes(ep) ==
    {"network", "status", "parse"} \cup (IF TimeoutMs(ep) > 0 THEN {"timeout"} ELSE {})

Resolved(data) == [ok |-> TRUE, cause |-> "none", data |-> data]

Rejected(cause) == [ok |-> FALSE, cause |-> cause, data |-> <<>>]

\* no GET was issued for the request
NoFetch == [ok |-> FALSE, cause |-> "nofetch", data |-> <<>>]

\* res.json(array), res.json({games: array}), res.status(n).json({message})
JsonArray(items) ==
    [status |-> 200, body |-> [kind |-> "array", items |-> items, message |-> ""]]

JsonGames(items) ==
    [status |-> 200, body |-> [kind |-> "games", items |-> items, message |-> ""]]

JsonMessage(status, message) ==
    [status |-> status, body |-> [kind |-> "message", items |-> <<>>, message |-> message]]

\* the promise of an async handler rejecting with nobody to catch it
UnhandledRejection ==
    [status |-> 0, body |-> [kind |-> "unhandled", items |-> <<>>, message |-> ""]]

\* the two static messages of the html endpoint (Korean in the source; written
\* here in English: "date=YYYY-MM-DD required", "HTML crawl failed")
MsgDateRequired == "date=YYYY-MM-DD required"
MsgCrawlFailed == "HTML crawl failed"

---------------------------------------------------------------------------
(* fetchRawKboFromAiScore / fetchKboNormalized and their two endpoints.    *)

\* a value, or the exception thrown instead of it
Returned(v) == [threw |-> FALSE, value |-> v]

Thrown == [threw |-> TRUE, value |-> <<>>]

\* async function fetchRawKboFromAiScore(): its try/catch turns every failure
\* of the GET or of the parse into the empty array
fetchRawKboFromAiScore(outcome) ==
    IF outcome.ok THEN Returned(ParseBody(outcome.data)) ELSE Returned(<<>>)

\* status written by fetchKboNormalized (Korean "finished" in the source)
StatusFinished == "finished"
\* default status of crawlNaverKBO_HTML (Korean "scheduled" in the source)
StatusScheduled == "scheduled"

\* obj[key] is not undefined
HasProp(obj, key) == key \in DOMAIN obj

\* the property `name: obj[key]` of an object literal; a property whose value
\* is undefined is written as no property (JSON drops it)
PropFrom(name, obj, key) == IF HasProp(obj, key) THEN name :> obj[key] ELSE <<>>

\* `${obj[key]}` for a number; an undefined value renders as "undefined"
TemplateOf(obj, key) ==
    IF HasProp(obj, key) THEN NumberToString(obj[key])
    ELSE <<"u", "n", "d", "e", "f", "i", "n", "e", "d">>

\* faulty variant: home and away exchanged
NormalizedOfSwapsTeams(g) ==
    [time   |-> <<>>,
     score  |-> TemplateOf(g, "score1") \o <<SP, Dash, SP>> \o TemplateOf(g, "score2"),
     status |-> StatusFinished,
     league |-> "KBO"]
    @@ PropFrom("date", g, "date")
    @@ PropFrom("home", g, "team2")
    @@ PropFrom("away", g, "team1")

\* data.map((g) => ({date, time: "", home, away, score, status, league})),
\* for any object g
NormalizedOf(g) ==
    [time   |-> <<>>,
     score  |-> TemplateOf(g, "score1") \o <<SP, Dash, SP>> \o TemplateOf(g, "score2"),
     status |-> StatusFinished,
     league |-> "KBO"]
    @@ PropFrom("date", g, "date")
    @@ PropFrom("home", g, "team1")
    @@ PropFrom("away", g, "team2")

\* data.filter((g) => g.date === d)
OnDate(raw, d) == SelectSeq(raw, LAMBDA g : g.date = d)

\* data.filter((g) => g.date.startsWith(monthParam))
InMonth(raw, month) == SelectSeq(raw, LAMBDA g : StartsWith(g.date, month))

Normalized(data) == [i \in 1..Len(data) |-> NormalizedOf(data[i])]

\* faulty variants of fetchKboNormalized: month tested before date; only the
\* first game of the date kept; the month compared for equality; today as the
\* default date
fetchKboNormalizedMonthFirst(raw, dateParam, monthParam) ==
    IF Truthy(monthParam) THEN {Normalized(InMonth(raw, monthParam.str))}
    ELSE IF Truthy(dateParam)
    THEN {Normalized(OnDate(raw, d)) : d \in normalizeDate(dateParam)}
    ELSE {Normalized(raw)}

fetchKboNormalizedFirstOnly(raw, dateParam, monthParam) ==
    IF Truthy(dateParam)
    THEN {Normalized(LET hits == OnDate(raw, d)
                     IN  IF hits = <<>> THEN hits ELSE <<hits[1]>>) :
              d \in normalizeDate(dateParam)}
    ELSE IF Truthy(monthParam) THEN {Normalized(InMonth(raw, monthParam.str))}
    ELSE {Normalized(raw)}

fetchKboNormalizedMonthEquals(raw, dateParam, monthParam) ==
    IF Truthy(dateParam)
    THEN {Normalized(OnDate(raw, d)) : d \in normalizeDate(dateParam)}
    ELSE IF Truthy(monthParam) THEN {Normalized(OnDate(raw, monthParam.str))}
    ELSE {Normalized(raw)}

fetchKboNormalizedDefaultsToday(raw, dateParam, monthParam) ==
    IF Truthy(dateParam) \/ ~Truthy(monthParam)
    THEN {Normalized(OnDate(raw, d)) : d \in normalizeDate(dateParam)}
    ELSE {Normalized(InMonth(raw, monthParam.str))}

\* async function fetchKboNormalized(dateParam, monthParam), after
\* `const raw = await fetchRawKboFromAiScore()`: the arrays it may return
\* (one, unless the clock is read)
fetchKboNormalized(raw, dateParam, monthParam) ==
    IF Truthy(dateParam)
    THEN {Normalized(OnDate(raw, d)) : d \in normalizeDate(dateParam)}
    ELSE IF Truthy(monthParam) THEN {Normalized(InMonth(raw, monthParam.str))}
    ELSE {Normalized(raw)}

\* app.get("/api/games/kbo/naver"): what the handler may answer once its GET
\* has settled
\* (faulty variant: the list wrapped under a games key, as aiscore does)
NaverHandlerWrapsGames(req, outcome) ==
    LET raw == fetchRawKboFromAiScore(outcome)
    IN  IF raw.threw THEN {JsonArray(<<>>)}
        ELSE {JsonGames(games) : games \in fetchKboNormalized(raw.value, req.date, req.month)}

NaverHandler(req, outcome) ==
    LET raw == fetchRawKboFromAiScore(outcome)
    IN  IF raw.threw THEN {JsonArray(<<>>)}
        ELSE {JsonArray(games) : games \in fetchKboNormalized(raw.value, req.date, req.month)}

\* app.get("/api/games/kbo/aiscore"): the handler once its GET has settled
AiscoreHandler(outcome) ==
    LET raw == fetchRawKboFromAiScore(outcome)
    IN  IF raw.threw THEN JsonGames(<<>>) ELSE JsonGames(raw.value)

---------------------------------------------------------------------------
(* crawlNaverKBO_HTML and GET /api/games/kbo/html (src/unnamed/part_000).  *)
(* A fetched page is the sequence of its .schedule_list elements, each     *)
(* given by the text of the five descendants the crawler selects.          *)

Node(time, home, away, homeScore, awayScore) ==
    [time |-> time, home |-> home, away |-> away,
     homeScore |-> homeScore, awayScore |-> awayScore]

\* faulty variant: one score text is enough for a finished game
ResultOfEitherScore(dateStr, el) ==
    LET homeScore == Trim(el.homeScore)
        awayScore == Trim(el.awayScore)
        either == homeScore # <<>> \/ awayScore # <<>>
    IN  [date   |-> dateStr,
         time   |-> Trim(el.time),
         home   |-> Trim(el.home),
         away   |-> Trim(el.away),
         score  |-> IF either THEN homeScore \o <<SP, Dash, SP>> \o awayScore ELSE <<>>,
         status |-> IF either THEN StatusFinished ELSE StatusScheduled,
         league |-> "KBO"]

\* the object pushed for one .schedule_list element
ResultOf(dateStr, el) ==
    LET time == Trim(el.time)
        home == Trim(el.home)
        away == Trim(el.away)
        homeScore == Trim(el.homeScore)
        awayScore == Trim(el.awayScore)
        both == homeScore # <<>> /\ awayScore # <<>>
    IN  [date   |-> dateStr,
         time   |-> time,
         home   |-> home,
         away   |-> away,
         score  |-> IF both THEN homeScore \o <<SP, Dash, SP>> \o awayScore ELSE <<>>,
         status |-> IF both THEN StatusFinished ELSE StatusScheduled,
         league |-> "KBO"]

\* async function crawlNaverKBO_HTML(dateStr): no try/catch of its own
crawlNaverKBO_HTML(dateStr, outcome) ==
    IF ~outcome.ok THEN Thrown
    ELSE Returned([i \in 1..Len(outcome.data) |-> ResultOf(dateStr, outcome.data[i])])

\* faulty variants: only an absent date rejected; no catch around the crawl
HtmlRejectsQueryUndefinedOnly(req) == ~req.date.defined

\* the part of the handler before its try block: `if (!date) return 400`
HtmlRejectsQuery(req) == ~Truthy(req.date)

HtmlHandlerNoCatch(req, outcome) ==
    IF HtmlRejectsQuery(req) THEN JsonMessage(400, MsgDateRequired)
    ELSE LET games == crawlNaverKBO_HTML(req.date.str, outcome)
         IN  IF games.threw THEN UnhandledRejection ELSE JsonArray(games.value)

\* app.get("/api/games/kbo/html")
HtmlHandler(req, outcome) ==
    IF HtmlRejectsQuery(req) THEN JsonMessage(400, MsgDateRequired)
    ELSE LET games == crawlNaverKBO_HTML(req.date.str, outcome)
         IN  IF games.threw THEN JsonMessage(500, MsgCrawlFailed)
             ELSE JsonArray(games.value)

---------------------------------------------------------------------------
(* The chat relay: io.on("connection") and GET /api/chat/history.          *)

MAX_CHAT_HISTORY == 100

\* a numeric property of an event payload: absent, or a number
NoNumber == [defined |-> FALSE, num |-> 0]

Num(n) == [defined |-> TRUE, num |-> n]

\* JavaScript truthiness of such a value: undefined and 0 are falsy
TruthyNumber(v) == v.defined /\ v.num # 0

\* the payload of a chat:message event whose sender passed no argument: in the
\* handler, msg is undefined
NoPayload == [defined |-> FALSE, text |-> 0, nickname |-> Undefined, timestamp |-> NoNumber]

\* the payload {text, nickname, timestamp}; the text of the k-th event is
\* written k
Payload(text, nickname, timestamp) ==
    [defined |-> TRUE, text |-> text, nickname |-> nickname, timestamp |-> timestamp]

\* default nickname (Korean "anonymous" in the source)
Anonymous == <<"a", "n", "o", "n">>

Kim == <<"k", "i", "m">>

\* a timestamp a client put into its payload
ClientTimestamp == 7

\* Date.now() while the k-th event is handled: the clock moves on between events
ClockStart == 1000

DateNow(k) == ClockStart + k

\* most events whose nickname and timestamp are chosen freely; the events
\* after them carry a nickname and no timestamp
MaxVaried == 1

\* most chat:message events in one behaviour
MaxMessages == 102

\* most sockets
MaxSockets == 2

Sockets == 1..MaxSockets

\* the payloads the k-th event may carry
ChatPayloads(k) ==
    IF k <= MaxVaried
    THEN {NoPayload} \cup
         {Payload(k, nickname, timestamp) :
             nickname \in {Undefined, Str(<<>>), Str(Kim)},
             timestamp \in {NoNumber, Num(0), Num(ClientTimestamp)}}
    ELSE {Payload(k, Str(Kim), NoNumber)}

\* const message = {text: msg.text, nickname: msg.nickname || <anonymous>,
\*                  timestamp: msg.timestamp || Date.now()}
MessageOf(msg, now) ==
    [text      |-> msg.text,
     nickname  |-> IF Truthy(msg.nickname) THEN msg.nickname.str ELSE Anonymous,
     timestamp |-> IF TruthyNumber(msg.timestamp) THEN msg.timestamp.num ELSE now]

\* faulty variants of the trim: none; the newest message removed
TrimmedNever(history) == history

TrimmedPop(history) ==
    IF Len(history) > MAX_CHAT_HISTORY THEN SubSeq(history, 1, Len(history) - 1)
    ELSE history

\* if (chatHistory.length > MAX_CHAT_HISTORY) chatHistory.shift()
Trimmed(history) ==
    IF Len(history) > MAX_CHAT_HISTORY THEN Tail(history) ELSE history

\* Array.prototype.slice(-n)
SliceLast(a, n) == IF Len(a) <= n THEN a ELSE SubSeq(a, Len(a) - n + 1, Len(a))

\* the revisions of the handler: with history (server.js 1486-1505), and the
\* plain relay (server.js 823-837, part_000 63-73)
Revisions == {"history", "relay"}

\* what the server sent last
NothingSent == [kind |-> "none", to |-> {}, items |-> <<>>]

\* io.emit("chat:message", payload) reached the sockets in `to`
Broadcast(to) == [kind |-> "emit", to |-> to, items |-> <<>>]

\* res.json(items)
HistoryResponse(items) == [kind |-> "response", to |-> {}, items |-> items]

\* the handler threw
Threw == [kind |-> "threw", to |-> {}, items |-> <<>>]

\* the chat relay at server start, nothing received
NoChat ==
    /\ chatHistory = <<>>
    /\ connected = {}
    /\ emitted = <<>>
    /\ sent = NothingSent
    /\ events = 0
    /\ running = TRUE
    /\ revision = "history"

---------------------------------------------------------------------------
(* The forum: users, posts, likes and comments kept in MySQL and served by *)
(* the REST handlers. A handler suspends at every await db.query, so the   *)
(* handlers of different requests interleave query by query; the code      *)
(* between two awaits runs without interruption.                           *)

\* the revisions that hold forum handlers: server.js lines 1-607 ("first"),
\* 734-1408 ("image") and 1410-2034 ("final"), and part_000 ("part")
Builds == {"first", "image", "final", "part"}

\* what the database enforces beside the queries of the handlers. The sources
\* declare neither table post_likes nor column comments.parent_id nor the SQL
\* mode of the server, so each of these is open:
\*   strict           a data-changing statement that compares an INT column with
\*                    a non-numeric string fails (error 1292) rather than warns
\*   likesUnique      post_likes has a unique key on (post_id, user_id)
\*   likesForeignKey  post_likes.post_id references posts(id)
\*   repliesCascade   comments.parent_id references comments(id) ON DELETE CASCADE
NoConstraints ==
    [strict |-> FALSE, likesUnique |-> FALSE, likesForeignKey |-> FALSE,
     repliesCascade |-> FALSE]

\* the forum with empty tables and nothing received
NoForum ==
    /\ build = "first"
    /\ schema = NoConstraints
    /\ users = {}
    /\ posts = {}
    /\ post_likes = EmptyBag
    /\ comments = {}
    /\ autoIncrement = [users |-> 1, comments |-> 1]
    /\ calls = <<>>

\* app.post / app.get / app.put / app.delete of revision b, in the order of
\* registration: <<method, path pattern, handler>>
Routes(b) ==
    CASE b = "first" ->
           << <<"POST", <<"api", "register">>, "register">>,
              <<"POST", <<"api", "login">>, "login">>,
              <<"GET", <<"api", "posts", ":id">>, "getPost">>,
              <<"PUT", <<"api", "posts", ":id">>, "putPost">>,
              <<"DELETE", <<"api", "posts", ":id">>, "deletePost">>,
              <<"POST", <<"api", "posts", ":id", "like">>, "like">>,
              <<"GET", <<"api", "posts", "popular">>, "popular">>,
              <<"POST", <<"api", "comments">>, "postComment">>,
              <<"DELETE", <<"api", "comments", ":id">>, "deleteComment">>,
              <<"PUT", <<"api", "user", "password">>, "changePassword">>,
              <<"DELETE", <<"api", "user", "delete">>, "deleteUser">> >>
      [] b = "image" ->
           << <<"POST", <<"api", "register">>, "register">>,
              <<"POST", <<"api", "login">>, "login">>,
              <<"GET", <<"api", "posts", "popular">>, "popular">>,
              <<"GET", <<"api", "posts", ":id">>, "getPost">>,
              <<"PUT", <<"api", "posts", ":id">>, "putPost">>,
              <<"DELETE", <<"api", "posts", ":id">>, "deletePost">>,
              <<"POST", <<"api", "posts", ":id", "like">>, "like">>,
              <<"POST", <<"api", "comments">>, "postComment">>,
              <<"DELETE", <<"api", "comments", ":id">>, "deleteComment">>,
              <<"PUT", <<"api", "user", "password">>, "changePassword">>,
              <<"DELETE", <<"api", "user", "delete">>, "deleteUser">> >>
      [] b = "final" ->
           << <<"POST", <<"api", "register">>, "register">>,
              <<"POST", <<"api", "login">>, "login">>,
              <<"GET", <<"api", "posts", ":id">>, "getPost">>,
              <<"PUT", <<"api", "posts", ":id">>, "putPost">>,
              <<"DELETE", <<"api", "posts", ":id">>, "deletePost">>,
              <<"POST", <<"api", "posts", ":id", "like">>, "like">>,
              <<"POST", <<"api", "comments">>, "postComment">>,
              <<"DELETE", <<"api", "comments", ":id">>, "deleteComment">>,
              <<"POST", <<"api", "user", "change-password">>, "changePassword">>,
              <<"POST", <<"api", "user", "delete">>, "deleteUser">> >>
      [] b = "part" ->
           << <<"POST", <<"api", "register">>, "register">>,
              <<"POST", <<"api", "login">>, "login">>,
              <<"GET", <<"api", "posts", ":id">>, "getPost">>,
              <<"POST", <<"api", "comments">>, "postComment">>,
              <<"PUT", <<"api", "user", "password">>, "changePassword">> >>

\* Express matches a path against a pattern segment by segment; a :id segment
\* matches any segment
Matches(pattern, path) ==
    /\ Len(pattern) = Len(path)
    /\ \A k \in 1..Len(path) : pattern[k] = path[k] \/ pattern[k] = ":id"

\* Express hands the request to the first registered route that matches; "none"
\* when no route does
Dispatch(b, method, path) ==
    LET routes == Routes(b)
        hits == {k \in 1..Len(routes) :
                    routes[k][1] = method /\ Matches(routes[k][2], path)}
    IN  IF hits = {} THEN "none"
        ELSE routes[CHOOSE k \in hits : \A j \in hits : k <= j][3]

\* the number MySQL compares an INT column with, given the string req.params.id
\* (one segment of one character here): its value when it is a digit, else 0
IdParam(seg) == IF IsDigit(seg) THEN CHOOSE v \in 0..9 : Digits[v + 1] = seg ELSE 0

\* req.body: a field that the request does not carry is "" here (parentId: 0);
\* the handlers test the fields for truthiness only, and "", 0 and undefined
\* are all falsy. oldPassword of a password change is field password
Body(username, password, newPassword, title, parentId) ==
    [username |-> username, password |-> password, newPassword |-> newPassword,
     title |-> title, parentId |-> parentId]

\* the validation a handler runs before its first query: TRUE when it answers 400
Rejects(b, op, body) ==
    CASE op = "register" -> body.username = "" \/ body.password = ""
      [] op = "login" -> b # "part" /\ (body.username = "" \/ body.password = "")
      [] op = "putPost" -> body.title = "" \/ body.password = ""
      [] op = "deletePost" -> body.password = ""
      [] op = "like" -> b = "final" /\ body.username = ""
      [] op = "postComment" -> b \in {"first", "image"} /\ body.password = ""
      [] op = "deleteComment" -> b # "final" /\ body.password = ""
      [] op = "changePassword" ->
           b # "part" /\ (body.username = "" \/ body.password = "" \/ body.newPassword = "")
      [] op = "deleteUser" ->
           body.username = "" \/ (b # "final" /\ body.password = "")
      [] OTHER -> FALSE

\* res.status(status).json(...) of call c; rows is the data of the answer
Responds(c, status, rows) == [c EXCEPT !.status = status, !.rows = rows]

\* call c goes on to its next query, keeping rows
Awaits(c, rows) == [c EXCEPT !.pc = @ + 1, !.rows = rows]

\* call i runs handler op and has not answered
Pending(i, op) == i \in 1..Len(calls) /\ calls[i].op = op /\ calls[i].status = 0

\* the requests a run receives
MaxCalls == 2

\* a request arrives: Express picks the route, the handler validates the body
\* and either answers 400 or issues its first query
HttpRequest(method, path, body) ==
    /\ Len(calls) < MaxCalls
    /\ LET op == Dispatch(build, method, path)
           c == [method |-> method, path |-> path, body |-> body, op |-> op,
                 id |-> IF Len(path) >= 3 THEN IdParam(path[3]) ELSE 0,
                 pc |-> 1, status |-> 0, rows |-> <<>>]
       IN  calls' = Append(calls,
                           IF op = "none" THEN Responds(c, 404, <<>>)
                           ELSE IF Rejects(build, op, body) THEN Responds(c, 400, <<>>)
                           ELSE c)
    /\ UNCHANGED <<build, schema, users, posts, post_likes, comments, autoIncrement>>
    /\ UNCHANGED <<scheduleVars, chatVars>>

\* GET /api/posts/:id. The first, image and part_000 revisions count the view and
\* then read the row; the final revision reads the row, answers 404 when there
\* is none, counts the view and answers the row it read before. Under a strict
\* SQL mode the UPDATE fails for an id that is no number, and the catch answers
\* 500
GetPost(i) ==
    /\ Pending(i, "getPost")
    /\ LET c == calls[i]
           rows == {p \in posts : p.id = c.id}
           row == CHOOSE p \in rows : TRUE
           \* UPDATE posts SET views = views + 1 WHERE id = ?
           viewed == {IF p.id = c.id THEN [p EXCEPT !.views = @ + 1] ELSE p : p \in posts}
       IN  IF build = "final"
           THEN IF c.pc = 1
                THEN /\ calls' = [calls EXCEPT ![i] =
                                     IF rows = {} THEN Responds(c, 404, <<>>)
                                     ELSE Awaits(c, <<row>>)]
                     /\ UNCHANGED posts
                ELSE /\ posts' = viewed
                     /\ calls' = [calls EXCEPT ![i] = Responds(c, 200, c.rows)]
           ELSE IF c.pc = 1
                THEN IF schema.strict /\ ~IsDigit(c.path[3])
                     THEN /\ calls' = [calls EXCEPT ![i] = Responds(c, 500, <<>>)]
                          /\ UNCHANGED posts
                     ELSE /\ posts' = viewed
                          /\ calls' = [calls EXCEPT ![i] = Awaits(c, <<>>)]
                ELSE /\ calls' = [calls EXCEPT ![i] =
                                     IF rows = {} THEN Responds(c, 404, <<>>)
                                     ELSE Responds(c, 200, <<row>>)]
                     /\ UNCHANGED posts
    /\ UNCHANGED <<build, schema, users, post_likes, comments, autoIncrement>>
    /\ UNCHANGED <<scheduleVars, chatVars>>

\* ORDER BY likes DESC, views DESC: every order of rows the clause allows (the
\* order of rows equal in both columns is open)
RECURSIVE OrderByLikesViews(_)
OrderByLikesViews(rows) ==
    IF rows = {} THEN {<<>>}
    ELSE UNION {{<<p>> \o rest : rest \in OrderByLikesViews(rows \ {p})} :
                   p \in {p \in rows : \A q \in rows :
                             \/ p.likes > q.likes
                             \/ p.likes = q.likes /\ p.views >= q.views}}

\* GET /api/posts/popular: SELECT ... ORDER BY likes DESC, views DESC LIMIT 5
Popular(i) ==
    /\ Pending(i, "popular")
    /\ \E ordered \in OrderByLikesViews(posts) :
           calls' = [calls EXCEPT ![i] =
                        Responds(calls[i], 200,
                                 SubSeq(ordered, 1, IF Len(ordered) < 5 THEN Len(ordered) ELSE 5))]
    /\ UNCHANGED <<build, schema, users, posts, post_likes, comments, autoIncrement>>
    /\ UNCHANGED <<scheduleVars, chatVars>>

\* the check without the comparison of passwords: any row of the id passes
PostPasswordCheckByIdOnly(c) ==
    LET rows == {p \in posts : p.id = c.id}
    IN  IF rows = {} THEN Responds(c, IF build = "final" THEN 403 ELSE 404, <<>>)
        ELSE Awaits(c, <<>>)

\* the first query of PUT and DELETE /api/posts/:id with its checks: the first
\* and image revisions select by id, answer 404 without a row and 403 when the
\* row's password !== the request's; the final revision selects by id AND
\* password and answers 403 without a row
PostPasswordCheck(c) ==
    LET rows == {p \in posts : p.id = c.id}
        matching == {p \in rows : p.password = c.body.password}
    IN  IF build = "final"
        THEN IF matching = {} THEN Responds(c, 403, <<>>) ELSE Awaits(c, <<>>)
        ELSE IF rows = {} THEN Responds(c, 404, <<>>)
             ELSE IF matching = {} THEN Responds(c, 403, <<>>)
             ELSE Awaits(c, <<>>)

\* PUT /api/posts/:id: the check, then UPDATE posts SET title = ? ... WHERE id = ?
PutPost(i) ==
    /\ Pending(i, "putPost")
    /\ LET c == calls[i]
       IN  IF c.pc = 1
           THEN /\ calls' = [calls EXCEPT ![i] = PostPasswordCheck(c)]
                /\ UNCHANGED posts
           ELSE /\ posts' = {IF p.id = c.id THEN [p EXCEPT !.title = c.body.title] ELSE p :
                                p \in posts}
                /\ calls' = [calls EXCEPT ![i] = Responds(c, 200, <<>>)]
    /\ UNCHANGED <<build, schema, users, post_likes, comments, autoIncrement>>
    /\ UNCHANGED <<scheduleVars, chatVars>>

\* DELETE /api/posts/:id: the check, then DELETE FROM posts WHERE id = ?
DeletePost(i) ==
    /\ Pending(i, "deletePost")
    /\ LET c == calls[i]
       IN  IF c.pc = 1
           THEN /\ calls' = [calls EXCEPT ![i] = PostPasswordCheck(c)]
                /\ UNCHANGED posts
           ELSE /\ posts' = {p \in posts : p.id # c.id}
                /\ calls' = [calls EXCEPT ![i] = Responds(c, 200, <<>>)]
    /\ UNCHANGED <<build, schema, users, post_likes, comments, autoIncrement>>
    /\ UNCHANGED <<scheduleVars, chatVars>>

---------------------------------------------------------------------------
(* SpecExtract: the text-pattern extractor applied to one body text.       *)

NotYet == [done |-> FALSE, games |-> <<>>, normalized |-> <<>>]

InitExtract ==
    /\ srcText \in LineInputs \cup PageInputs
    /\ extracted = NotYet
    /\ inflight = EmptyBag
    /\ last = <<>>
    /\ received = 0
    /\ fetches = 0
    /\ NoChat
    /\ NoForum

\* fetchRawKboFromAiScore on the fetched text, then fetchKboNormalized() on its
\* result with neither filter given
Extract ==
    /\ ~extracted.done
    /\ LET raw == fetchRawKboFromAiScore(Resolved(srcText))
       IN  \E games \in fetchKboNormalized(raw.value, Undefined, Undefined) :
               extracted' = [done |-> TRUE, games |-> raw.value, normalized |-> games]
    /\ UNCHANGED <<srcText, inflight, last, received, fetches>>
    /\ UNCHANGED <<chatVars, forumVars>>

NextExtract == Extract

SpecExtract == InitExtract /\ [][NextExtract]_vars

---------------------------------------------------------------------------
(* Pages the Naver schedule source may serve.                              *)

\* " 18:30 ", " LG ", "KT", "3", " 2"
FinishedNode ==
    Node(<<SP, "1", "8", ":", "3", "0", SP>>, <<SP, "L", "G", SP>>, <<"K", "T">>,
         <<"3">>, <<SP, "2">>)

\* "14:00", "KIA", "NC", no score text
ScheduledNode ==
    Node(<<"1", "4", ":", "0", "0">>, <<"K", "I", "A">>, <<"N", "C">>, <<>>, <<>>)

\* no time, no home name, a home score only (white space where the away score goes)
PartialNode == Node(<<>>, <<>>, <<"S", "S", "G">>, <<"5">>, <<LF, SP>>)

\* a called-off game: "KT", "NC", and "-" where each score goes
CancelledNode == Node(<<>>, <<"K", "T">>, <<"N", "C">>, <<Dash>>, <<Dash>>)

SourceNodes == {FinishedNode, ScheduledNode, PartialNode, CancelledNode}

NaverPages == UNION {[1..n -> SourceNodes] : n \in 0..MaxPageItems}

\* most requests received in one behaviour
MaxRequests == 2

---------------------------------------------------------------------------
(* Spec: requests to the three endpoints, each suspended on its GET until  *)
(* the GET settles; any number of them may be in flight.                   *)

Request(ep, date, month) == [ep |-> ep, date |-> date, month |-> month]

Answer(req, outcome, response) == [req |-> req, outcome |-> outcome, response |-> response]

\* nothing answered yet
NoAnswer ==
    Answer(Request("none", Undefined, Undefined), NoFetch,
           [status |-> 0, body |-> [kind |-> "none", items |-> <<>>, message |-> ""]])

Init ==
    /\ srcText = <<>>
    /\ extracted = NotYet
    /\ inflight = EmptyBag
    /\ last = NoAnswer
    /\ received = 0
    /\ fetches = 0
    /\ NoChat
    /\ NoForum

\* faulty variant: a request joins the GET of an identical request in flight
SuspendDeduplicated(req) ==
    /\ inflight' = inflight (+) SetToBag({req})
    /\ fetches' = IF BagIn(req, inflight) THEN fetches ELSE fetches + 1
    /\ UNCHANGED last

\* a request reaches `await axios.get(...)`: one GET goes out, the handler suspends
Suspend(req) ==
    /\ inflight' = inflight (+) SetToBag({req})
    /\ fetches' = fetches + 1
    /\ UNCHANGED last

\* GET /api/games/kbo/naver?date=..&month=..
NaverRequest ==
    /\ received < MaxRequests
    /\ received' = received + 1
    /\ \E date \in DateParams, month \in MonthParams :
           Suspend(Request("naver", date, month))
    /\ UNCHANGED <<srcText, extracted>>
    /\ UNCHANGED <<chatVars, forumVars>>

\* GET /api/games/kbo/aiscore
AiscoreRequest ==
    /\ received < MaxRequests
    /\ received' = received + 1
    /\ Suspend(Request("aiscore", Undefined, Undefined))
    /\ UNCHANGED <<srcText, extracted>>
    /\ UNCHANGED <<chatVars, forumVars>>

\* GET /api/games/kbo/html?date=..: answered at once when date is missing
HtmlRequest ==
    /\ received < MaxRequests
    /\ received' = received + 1
    /\ \E date \in DateParams :
          LET req == Request("html", date, Undefined)
          IN  IF HtmlRejectsQuery(req)
              THEN /\ last' = Answer(req, NoFetch, HtmlHandler(req, NoFetch))
                   /\ UNCHANGED <<inflight, fetches>>
              ELSE Suspend(req)
    /\ UNCHANGED <<srcText, extracted>>
    /\ UNCHANGED <<chatVars, forumVars>>

\* faulty variant: the games array is kept between requests, each answer
\* carrying on from the list answered before
ResumeSharedGames(req, outcome) ==
    /\ inflight' = inflight (-) SetToBag({req})
    /\ \E response \in CASE req.ep = "naver" -> NaverHandler(req, outcome)
                            [] req.ep = "aiscore" -> {AiscoreHandler(outcome)}
                            [] req.ep = "html" -> {HtmlHandler(req, outcome)} :
          last' = Answer(req, outcome,
                         IF response.body.kind = last.response.body.kind
                         THEN [response EXCEPT !.body.items = last.response.body.items \o @]
                         ELSE response)
    /\ UNCHANGED <<srcText, extracted, received, fetches>>
    /\ UNCHANGED <<chatVars, forumVars>>

\* the handler of req resumes with the settled GET and answers
Resume(req, outcome) ==
    /\ inflight' = inflight (-) SetToBag({req})
    /\ \E response \in CASE req.ep = "naver" -> NaverHandler(req, outcome)
                            [] req.ep = "aiscore" -> {AiscoreHandler(outcome)}
                            [] req.ep = "html" -> {HtmlHandler(req, outcome)} :
          last' = Answer(req, outcome, response)
    /\ UNCHANGED <<srcText, extracted, received, fetches>>
    /\ UNCHANGED <<chatVars, forumVars>>

\* the GET of a suspended request resolves with a page
FetchResolves ==
    \E req \in BagToSet(inflight) :
        \E data \in IF req.ep = "html" THEN NaverPages ELSE AiScoreBodies :
            Resume(req, Resolved(data))

\* the GET of a suspended request rejects (or the page does not parse)
FetchRejects ==
    \E req \in BagToSet(inflight) :
        \E cause \in Causes(req.ep) :
            Resume(req, Rejected(cause))

Next == NaverRequest \/ AiscoreRequest \/ HtmlRequest \/ FetchResolves \/ FetchRejects

Spec == Init /\ [][Next]_vars

\* the timer armed by the `timeout` option of a suspended GET expires: axios
\* rejects the promise and the handler resumes on its failure path
TimeoutFires ==
    \E req \in BagToSet(inflight) :
        /\ TimeoutMs(req.ep) > 0
        /\ Resume(req, Rejected("timeout"))

\* Spec with a source that need not ever answer: the only step that is bound
\* to happen is the expiry of an armed timer, which the event loop runs once
\* its delay has passed
SpecLive == Init /\ [][Next]_vars /\ WF_vars(TimeoutFires)

---------------------------------------------------------------------------
(* SpecChat: sockets connect and disconnect, send chat:message events, and *)
(* clients read GET /api/chat/history. Each handler runs to completion     *)
(* before the next one starts (one JavaScript thread).                     *)

InitChat ==
    /\ srcText = <<>>
    /\ extracted = NotYet
    /\ inflight = EmptyBag
    /\ last = NoAnswer
    /\ received = 0
    /\ fetches = 0
    /\ chatHistory = <<>>
    /\ connected = {}
    /\ emitted = <<>>
    /\ sent = NothingSent
    /\ events = 0
    /\ running = TRUE
    /\ revision \in Revisions
    /\ NoForum

\* io.on("connection", (socket) => ...): the handlers of the socket are registered
Connect ==
    /\ running
    /\ \E socket \in Sockets \ connected : connected' = connected \cup {socket}
    /\ UNCHANGED <<chatHistory, emitted, sent, events, running, revision>>
    /\ UNCHANGED <<scheduleVars, forumVars>>

\* socket.on("disconnect", ...)
Disconnect ==
    /\ running
    /\ \E socket \in connected : connected' = connected \ {socket}
    /\ UNCHANGED <<chatHistory, emitted, sent, events, running, revision>>
    /\ UNCHANGED <<scheduleVars, forumVars>>

\* socket.on("chat:message", (msg) => ...) of server.js 1489-1500. Reading
\* msg.text of an undefined msg throws a TypeError before anything is pushed
\* or emitted; nothing catches it and the process exits, its memory and its
\* connections with it. Such an event may come at any length of the history.
ChatMessage ==
    /\ running
    /\ revision = "history"
    /\ events < MaxMessages
    /\ events' = events + 1
    /\ \E socket \in connected, msg \in ChatPayloads(events + 1) \cup {NoPayload} :
          IF ~msg.defined
          THEN /\ sent' = Threw
               /\ running' = FALSE
               /\ chatHistory' = <<>>
               /\ connected' = {}
               /\ UNCHANGED emitted
          ELSE LET message == MessageOf(msg, DateNow(events + 1))
               IN  /\ chatHistory' = Trimmed(Append(chatHistory, message))
                   /\ emitted' = Append(emitted, message)
                   /\ sent' = Broadcast(connected)
                   /\ UNCHANGED <<connected, running>>
    /\ UNCHANGED revision
    /\ UNCHANGED <<scheduleVars, forumVars>>

\* socket.on("chat:message", (msg) => { io.emit("chat:message", msg); }) of
\* server.js 826-832 and part_000 66-68
RelayMessage ==
    /\ running
    /\ revision = "relay"
    /\ events < MaxMessages
    /\ events' = events + 1
    /\ \E socket \in connected, msg \in ChatPayloads(events + 1) :
          /\ emitted' = Append(emitted, msg)
          /\ sent' = Broadcast(connected)
    /\ UNCHANGED <<chatHistory, connected, running, revision>>
    /\ UNCHANGED <<scheduleVars, forumVars>>

\* app.get("/api/chat/history")
GetChatHistory ==
    /\ running
    /\ revision = "history"
    /\ sent' = HistoryResponse(SliceLast(chatHistory, MAX_CHAT_HISTORY))
    /\ UNCHANGED <<chatHistory, connected, emitted, events, running, revision>>
    /\ UNCHANGED <<scheduleVars, forumVars>>

NextChat == Connect \/ Disconnect \/ ChatMessage \/ RelayMessage \/ GetChatHistory

SpecChat == InitChat /\ [][NextChat]_vars

\* a row of users; username is declared UNIQUE
User(id, username, password) == [id |-> id, username |-> username, password |-> password]

\* Register over a users table without the UNIQUE key: the INSERT always succeeds
RegisterWithoutUniqueKey(i) ==
    /\ Pending(i, "register")
    /\ LET c == calls[i]
           existing == {u \in users : u.username = c.body.username}
       IN  IF c.pc = 1
           THEN /\ calls' = [calls EXCEPT ![i] =
                                IF existing # {} THEN Responds(c, 409, <<>>)
                                ELSE Awaits(c, <<>>)]
                /\ UNCHANGED <<users, autoIncrement>>
           ELSE /\ autoIncrement' = [autoIncrement EXCEPT !.users = @ + 1]
                /\ users' = users \cup
                       {User(autoIncrement.users, c.body.username, c.body.password)}
                /\ calls' = [calls EXCEPT ![i] =
                                Responds(c, IF build = "final" THEN 200 ELSE 201, <<>>)]
    /\ UNCHANGED <<build, schema, posts, post_likes, comments>>
    /\ UNCHANGED <<scheduleVars, chatVars>>

\* POST /api/register: SELECT id FROM users WHERE username = ?, 409 when a row
\* exists, then INSERT INTO users. The INSERT of a username that a row holds by
\* then fails on the UNIQUE key and the catch answers 500; it uses up its
\* AUTO_INCREMENT value all the same
Register(i) ==
    /\ Pending(i, "register")
    /\ LET c == calls[i]
           existing == {u \in users : u.username = c.body.username}
       IN  IF c.pc = 1
           THEN /\ calls' = [calls EXCEPT ![i] =
                                IF existing # {} THEN Responds(c, 409, <<>>)
                                ELSE Awaits(c, <<>>)]
                /\ UNCHANGED <<users, autoIncrement>>
           ELSE /\ autoIncrement' = [autoIncrement EXCEPT !.users = @ + 1]
                /\ IF existing # {}
                   THEN /\ calls' = [calls EXCEPT ![i] = Responds(c, 500, <<>>)]
                        /\ UNCHANGED users
                   ELSE /\ users' = users \cup
                               {User(autoIncrement.users, c.body.username, c.body.password)}
                        /\ calls' = [calls EXCEPT ![i] =
                                        Responds(c, IF build = "final" THEN 200 ELSE 201, <<>>)]
    /\ UNCHANGED <<build, schema, posts, post_likes, comments>>
    /\ UNCHANGED <<scheduleVars, chatVars>>

\* POST /api/login: the first and image revisions and part_000 select by
\* username and compare rows[0].password !== password; the final revision
\* selects by username AND password. 401 without a match, else the user
Login(i) ==
    /\ Pending(i, "login")
    /\ LET c == calls[i]
           matching == {u \in users : u.username = c.body.username
                                        /\ u.password = c.body.password}
       IN  calls' = [calls EXCEPT ![i] =
                        IF matching = {} THEN Responds(c, 401, <<>>)
                        ELSE Responds(c, 200, <<CHOOSE u \in matching : TRUE>>)]
    /\ UNCHANGED <<build, schema, users, posts, post_likes, comments, autoIncrement>>
    /\ UNCHANGED <<scheduleVars, chatVars>>

\* PUT /api/user/password and POST /api/user/change-password: SELECT ... WHERE
\* username = ? AND password = ? with oldPassword (field password of Body), 400
\* without a row, then UPDATE users SET password = ? WHERE username = ?
ChangePassword(i) ==
    /\ Pending(i, "changePassword")
    /\ LET c == calls[i]
           matching == {u \in users : u.username = c.body.username
                                        /\ u.password = c.body.password}
       IN  IF c.pc = 1
           THEN /\ calls' = [calls EXCEPT ![i] =
                                IF matching = {} THEN Responds(c, 400, <<>>)
                                ELSE Awaits(c, <<>>)]
                /\ UNCHANGED users
           ELSE /\ users' = {IF u.username = c.body.username
                             THEN [u EXCEPT !.password = c.body.newPassword] ELSE u :
                                u \in users}
                /\ calls' = [calls EXCEPT ![i] = Responds(c, 200, <<>>)]
    /\ UNCHANGED <<build, schema, posts, post_likes, comments, autoIncrement>>
    /\ UNCHANGED <<scheduleVars, chatVars>>

\* DELETE /api/user/delete of the first and image revisions: SELECT ... WHERE
\* username = ? AND password = ?, 400 without a row, then DELETE FROM users WHERE
\* username = ?. POST /api/user/delete of the final revision: the DELETE alone
DeleteUser(i) ==
    /\ Pending(i, "deleteUser")
    /\ LET c == calls[i]
           matching == {u \in users : u.username = c.body.username
                                        /\ u.password = c.body.password}
       IN  IF build # "final" /\ c.pc = 1
           THEN /\ calls' = [calls EXCEPT ![i] =
                                IF matching = {} THEN Responds(c, 400, <<>>)
                                ELSE Awaits(c, <<>>)]
                /\ UNCHANGED users
           ELSE /\ users' = {u \in users : u.username # c.body.username}
                /\ calls' = [calls EXCEPT ![i] = Responds(c, 200, <<>>)]
    /\ UNCHANGED <<build, schema, posts, post_likes, comments, autoIncrement>>
    /\ UNCHANGED <<scheduleVars, chatVars>>

\* POST /api/posts/:id/like. The first and image revisions run UPDATE posts SET
\* likes = likes + 1 WHERE id = ? and then select the row, 404 without one. The
\* final revision runs five queries: (1) the user of the username, 404 without
\* one; (2) the post_likes row of (post, user), and with one it goes to (5);
\* (3) INSERT INTO post_likes, which fails on the keys the table may have;
\* (4) the UPDATE of likes; (5) SELECT likes FROM posts WHERE id = ?, whose
\* answer reads post.likes: without a row post is undefined, the read throws
\* and the catch answers 500
Like(i) ==
    /\ Pending(i, "like")
    /\ LET c == calls[i]
           rows == {p \in posts : p.id = c.id}
           liked == {IF p.id = c.id THEN [p EXCEPT !.likes = @ + 1] ELSE p : p \in posts}
           found == {u \in users : u.username = c.body.username}
           row == [post_id |-> c.id, user_id |-> c.rows[1].id]
           answer == IF rows = {} THEN Responds(c, IF build = "final" THEN 500 ELSE 404, <<>>)
                     ELSE Responds(c, 200, <<CHOOSE p \in rows : TRUE>>)
       IN  IF build # "final"
           THEN IF c.pc = 1
                THEN /\ posts' = liked
                     /\ calls' = [calls EXCEPT ![i] = Awaits(c, <<>>)]
                     /\ UNCHANGED post_likes
                ELSE /\ calls' = [calls EXCEPT ![i] = answer]
                     /\ UNCHANGED <<posts, post_likes>>
           ELSE CASE c.pc = 1 ->
                       /\ calls' = [calls EXCEPT ![i] =
                                       IF found = {} THEN Responds(c, 404, <<>>)
                                       ELSE Awaits(c, <<CHOOSE u \in found : TRUE>>)]
                       /\ UNCHANGED <<posts, post_likes>>
                  [] c.pc = 2 ->
                       /\ calls' = [calls EXCEPT ![i] =
                                       IF BagIn(row, post_likes) THEN [c EXCEPT !.pc = 5]
                                       ELSE Awaits(c, c.rows)]
                       /\ UNCHANGED <<posts, post_likes>>
                  [] c.pc = 3 ->
                       IF \/ schema.likesUnique /\ BagIn(row, post_likes)
                          \/ schema.likesForeignKey /\ rows = {}
                       THEN /\ calls' = [calls EXCEPT ![i] = Responds(c, 500, <<>>)]
                            /\ UNCHANGED <<posts, post_likes>>
                       ELSE /\ post_likes' = post_likes (+) SetToBag({row})
                            /\ calls' = [calls EXCEPT ![i] = Awaits(c, c.rows)]
                            /\ UNCHANGED posts
                  [] c.pc = 4 ->
                       /\ posts' = liked
                       /\ calls' = [calls EXCEPT ![i] = Awaits(c, c.rows)]
                       /\ UNCHANGED post_likes
                  [] OTHER ->
                       /\ calls' = [calls EXCEPT ![i] = answer]
                       /\ UNCHANGED <<posts, post_likes>>
    /\ UNCHANGED <<build, schema, users, comments, autoIncrement>>
    /\ UNCHANGED <<scheduleVars, chatVars>>

\* a row of comments; parent_id 0 stands for NULL
Comment(id, parent_id, password) == [id |-> id, parent_id |-> parent_id, password |-> password]

\* POST /api/comments: INSERT INTO comments (..., parent_id) with parentId || null
\* (the first revision inserts no parent_id; the final revision stores no
\* password). Whether the parent exists is not looked at; a foreign key on
\* parent_id, if the table has one, lets the INSERT of a reply to no comment fail
PostComment(i) ==
    /\ Pending(i, "postComment")
    /\ LET c == calls[i]
           parent == IF build = "first" THEN 0 ELSE c.body.parentId
       IN  IF schema.repliesCascade /\ parent # 0 /\ ~(\E r \in comments : r.id = parent)
           THEN /\ calls' = [calls EXCEPT ![i] = Responds(c, 500, <<>>)]
                /\ UNCHANGED <<comments, autoIncrement>>
           ELSE /\ comments' = comments \cup
                       {Comment(autoIncrement.comments, parent,
                                IF build = "final" THEN "" ELSE c.body.password)}
                /\ autoIncrement' = [autoIncrement EXCEPT !.comments = @ + 1]
                /\ calls' = [calls EXCEPT ![i] =
                                Responds(c, IF build \in {"first", "image"} THEN 201 ELSE 200, <<>>)]
    /\ UNCHANGED <<build, schema, users, posts, post_likes>>
    /\ UNCHANGED <<scheduleVars, chatVars>>

\* DELETE /api/comments/:id. The first and image revisions select the comment,
\* answer 404 without a row and 403 when comment.password !== password, and then
\* delete; the final revision deletes at once and always answers success. The
\* first revision runs DELETE FROM comments WHERE id = ?, the others DELETE
\* FROM comments WHERE id = ? OR parent_id = ?: the comment and its direct
\* replies. With a cascading foreign key on parent_id the database removes the
\* replies of every removed row as well
DeleteComment(i) ==
    /\ Pending(i, "deleteComment")
    /\ LET c == calls[i]
           rows == {r \in comments : r.id = c.id}
           named == {r \in comments :
                        r.id = c.id \/ (build # "first" /\ r.parent_id = c.id)}
           removed[n \in 0..Cardinality(comments)] ==
               IF n = 0 THEN named
               ELSE LET before == removed[n - 1]
                    IN  before \cup {r \in comments : \E d \in before : r.parent_id = d.id}
       IN  IF build # "final" /\ c.pc = 1
           THEN /\ calls' = [calls EXCEPT ![i] =
                                IF rows = {} THEN Responds(c, 404, <<>>)
                                ELSE IF \A r \in rows : r.password # c.body.password
                                THEN Responds(c, 403, <<>>)
                                ELSE Awaits(c, <<>>)]
                /\ UNCHANGED comments
           ELSE /\ comments' = comments \
                       (IF schema.repliesCascade THEN removed[Cardinality(comments)] ELSE named)
                /\ calls' = [calls EXCEPT ![i] = Responds(c, 200, <<>>)]
    /\ UNCHANGED <<build, schema, users, posts, post_likes, autoIncrement>>
    /\ UNCHANGED <<scheduleVars, chatVars>>

---------------------------------------------------------------------------
(* SpecPosts: the handlers of /api/posts/:id and /api/posts/popular over a *)
(* posts table that earlier requests have filled.                          *)

\* a row of posts
Post(id, password, title, views, likes) ==
    [id |-> id, password |-> password, title |-> title, views |-> views, likes |-> likes]

\* tables the forum can hold: two posts, and six posts of which two pairs are
\* equal in likes
PostTables ==
    { {Post(1, "pw1", "t1", 0, 0), Post(2, "pw2", "t1", 3, 1)},
      {Post(1, "pw1", "t1", 0, 0), Post(2, "pw2", "t1", 3, 1), Post(3, "pw1", "t1", 2, 1),
       Post(4, "pw1", "t1", 1, 2), Post(5, "pw1", "t1", 1, 0), Post(6, "pw1", "t1", 5, 4)} }

\* the requests for posts: post 1 exists with password "pw1", post 9 does not
PostRequests ==
    {<<"GET", <<"api", "posts", seg>>, Body("", "", "", "", 0)>> : seg \in {"1", "9", "popular"}}
    \cup {<<"PUT", <<"api", "posts", seg>>, Body("", pw, "", "t2", 0)>> :
             seg \in {"1", "9"}, pw \in {"pw1", "pw2", ""}}
    \cup {<<"DELETE", <<"api", "posts", seg>>, Body("", pw, "", "", 0)>> :
             seg \in {"1", "9"}, pw \in {"pw1", "pw2"}}

InitPosts ==
    /\ srcText = <<>>
    /\ extracted = NotYet
    /\ inflight = EmptyBag
    /\ last = NoAnswer
    /\ received = 0
    /\ fetches = 0
    /\ NoChat
    /\ build \in Builds
    /\ schema \in {NoConstraints, [NoConstraints EXCEPT !.strict = TRUE]}
    /\ users = {}
    /\ posts \in PostTables
    /\ post_likes = EmptyBag
    /\ comments = {}
    /\ autoIncrement = [users |-> 1, comments |-> 1]
    /\ calls = <<>>

NextPosts ==
    \/ \E r \in PostRequests : HttpRequest(r[1], r[2], r[3])
    \/ \E i \in 1..Len(calls) : GetPost(i)
    \/ \E i \in 1..Len(calls) : Popular(i)
    \/ \E i \in 1..Len(calls) : PutPost(i)
    \/ \E i \in 1..Len(calls) : DeletePost(i)

SpecPosts == InitPosts /\ [][NextPosts]_vars

---------------------------------------------------------------------------
(* SpecUsers: registration, login, password change and account deletion.   *)

\* the requests about users that revision b routes to a handler: kim and lee
\* register, log in, change their password and delete their account, with the
\* passwords pw1 and pw2 or without one
UserRequests(b) ==
    LET routes == Routes(b)
        route(op) == routes[CHOOSE k \in 1..Len(routes) : routes[k][3] = op]
        registered == {routes[k][3] : k \in 1..Len(routes)}
        bodies(op) ==
            CASE op = "register" ->
                   {Body(u, pw, "", "", 0) : u \in {"kim", "lee"}, pw \in {"pw1", ""}}
              [] op = "login" ->
                   {Body("kim", pw, "", "", 0) : pw \in {"pw1", "pw2"}}
              [] op = "changePassword" ->
                   {Body(u, old, new, "", 0) :
                       u \in {"kim", "lee"}, old \in {"pw1", "pw2"}, new \in {"pw1", "pw2"}}
              [] op = "deleteUser" ->
                   {Body(u, pw, "", "", 0) : u \in {"kim", "lee"}, pw \in {"pw1", "pw2", ""}}
    IN  UNION {{<<route(op)[1], route(op)[2], body>> : body \in bodies(op)} :
                  op \in registered \cap {"register", "login", "changePassword", "deleteUser"}}

\* the users table holds nobody, or kim who registered with pw1
InitUsers ==
    /\ srcText = <<>>
    /\ extracted = NotYet
    /\ inflight = EmptyBag
    /\ last = NoAnswer
    /\ received = 0
    /\ fetches = 0
    /\ NoChat
    /\ build \in Builds
    /\ schema = NoConstraints
    /\ users \in {{}, {User(1, "kim", "pw1")}}
    /\ posts = {}
    /\ post_likes = EmptyBag
    /\ comments = {}
    /\ autoIncrement = [users |-> Cardinality(users) + 1, comments |-> 1]
    /\ calls = <<>>

NextUsers ==
    \/ \E r \in UserRequests(build) : HttpRequest(r[1], r[2], r[3])
    \/ \E i \in 1..Len(calls) : Register(i)
    \/ \E i \in 1..Len(calls) : Login(i)
    \/ \E i \in 1..Len(calls) : ChangePassword(i)
    \/ \E i \in 1..Len(calls) : DeleteUser(i)

SpecUsers == InitUsers /\ [][NextUsers]_vars

---------------------------------------------------------------------------
(* SpecLikes: POST /api/posts/:id/like of the registered users kim and lee *)
(* and of others, for post 1, which exists, and post 9, which does not.    *)

LikeRequests ==
    {<<"POST", <<"api", "posts", seg, "like">>, Body(u, "", "", "", 0)>> :
        seg \in {"1", "9"}, u \in {"kim", "lee", "amy", ""}}

\* one post that nobody liked; each key of post_likes is there or is not
InitLikes ==
    /\ srcText = <<>>
    /\ extracted = NotYet
    /\ inflight = EmptyBag
    /\ last = NoAnswer
    /\ received = 0
    /\ fetches = 0
    /\ NoChat
    /\ build \in {"first", "image", "final"}
    /\ schema \in {[NoConstraints EXCEPT !.likesUnique = unique, !.likesForeignKey = key] :
                      unique \in BOOLEAN, key \in BOOLEAN}
    /\ users = {User(1, "kim", "pw1"), User(2, "lee", "pw2")}
    /\ posts = {Post(1, "pw1", "t1", 0, 0)}
    /\ post_likes = EmptyBag
    /\ comments = {}
    /\ autoIncrement = [users |-> 3, comments |-> 1]
    /\ calls = <<>>

NextLikes ==
    \/ \E r \in LikeRequests : HttpRequest(r[1], r[2], r[3])
    \/ \E i \in 1..Len(calls) : Like(i)

SpecLikes == InitLikes /\ [][NextLikes]_vars

---------------------------------------------------------------------------
(* SpecComments: comments and replies are posted and deleted.              *)

\* comments are posted with pw1, as top-level comments or as replies to
\* comment 2 or 5, and deleted by id with pw1, with pw2 or without password
CommentRequests ==
    {<<"POST", <<"api", "comments">>, Body("", "pw1", "", "", parent)>> : parent \in {0, 2, 5}}
    \cup {<<"DELETE", <<"api", "comments", seg>>, Body("", pw, "", "", 0)>> :
             seg \in {"1", "2", "9"}, pw \in {"pw1", "pw2", ""}}

\* the comments earlier requests have posted: none, or comment 1 with reply 2,
\* which has reply 3, and comment 4 with reply 5
InitComments ==
    /\ srcText = <<>>
    /\ extracted = NotYet
    /\ inflight = EmptyBag
    /\ last = NoAnswer
    /\ received = 0
    /\ fetches = 0
    /\ NoChat
    /\ build \in {"image", "final", "part"}
    /\ schema \in {NoConstraints, [NoConstraints EXCEPT !.repliesCascade = TRUE]}
    /\ users = {}
    /\ posts = {}
    /\ post_likes = EmptyBag
    /\ LET pw == IF build = "final" THEN "" ELSE "pw1"
       IN  comments \in
               {{}, {Comment(1, 0, pw), Comment(2, 1, pw), Comment(3, 2, pw),
                     Comment(4, 0, pw), Comment(5, 4, pw)}}
    /\ autoIncrement = [users |-> 1, comments |-> Cardinality(comments) + 1]
    /\ calls = <<>>

NextComments ==
    \/ \E r \in CommentRequests : HttpRequest(r[1], r[2], r[3])
    \/ \E i \in 1..Len(calls) : PostComment(i)
    \/ \E i \in 1..Len(calls) : DeleteComment(i)

SpecComments == InitComments /\ [][NextComments]_vars

---------------------------------------------------------------------------
(* Claims about the text-pattern extractor (checked under SpecExtract).    *)

\* "Hanwha Eagles", "LG Twins"
HanwhaEagles == <<"H", "a", "n", "w", "h", "a", SP, "E", "a", "g", "l", "e", "s">>
LGTwins == <<"L", "G", SP, "T", "w", "i", "n", "s">>

\* C1: the line "2025/10/31 Hanwha Eagles LG Twins 1 4" is extracted as exactly
\* one record {date "2025-10-31", team1 "Hanwha Eagles", team2 "LG Twins",
\* score1 1, score2 4}, which fetchKboNormalized maps to {date "2025-10-31",
\* time "", home "Hanwha Eagles", away "LG Twins", score "1 - 4", status
\* finished, league "KBO"}.
C1_ExampleLineSplitsAtTeamNames ==
    (extracted.done /\ srcText = ExampleLine) =>
        /\ extracted.games =
              << [date |-> Oct31, team1 |-> HanwhaEagles, team2 |-> LGTwins,
                  score1 |-> 1, score2 |-> 4] >>
        /\ extracted.normalized =
              << [date |-> Oct31, time |-> <<>>, home |-> HanwhaEagles, away |-> LGTwins,
                  score |-> <<"1", SP, Dash, SP, "4">>, status |-> StatusFinished,
                  league |-> "KBO"] >>

\* a trimmed line: not empty, no line feed, no white space at either end
IsTrimmedLine(s) ==
    /\ s # <<>>
    /\ \A j \in 1..Len(s) : s[j] # LF
    /\ s[1] \notin WhiteSpace
    /\ s[Len(s)] \notin WhiteSpace

\* positions a..b of s are a non-empty run of class cls
AllIn(s, a, b, cls) == a <= b /\ \A j \in a..b : InClass(s[j], cls)

\* s begins with a 4-2-2 digit date written with slashes
HasSlashDate(s) ==
    /\ Len(s) >= 10
    /\ \A j \in {1, 2, 3, 4, 6, 7, 9, 10} : IsDigit(s[j])
    /\ s[5] = "/" /\ s[8] = "/"

\* P(a, b, c) holds of every way to read s as
\*   date, white space, team text, white space, team text, white space,
\*   digits s[a..b-1], white space, digits s[c..Len(s)]
\* where a team text is a non-empty text without line terminators
EverySplit(s, P(_, _, _)) ==
    LET n == Len(s)
    IN  \A p1 \in 12..n : AllIn(s, 11, p1 - 1, "s") =>
        \A p2 \in (p1 + 1)..n : AllIn(s, p1, p2 - 1, ".") =>
        \A p3 \in (p2 + 1)..n : AllIn(s, p2, p3 - 1, "s") =>
        \A p4 \in (p3 + 1)..n : AllIn(s, p3, p4 - 1, ".") =>
        \A p5 \in (p4 + 1)..n : AllIn(s, p4, p5 - 1, "s") =>
        \A p6 \in (p5 + 1)..n : AllIn(s, p5, p6 - 1, "d") =>
        \A p7 \in (p6 + 1)..n : AllIn(s, p6, p7 - 1, "s") =>
        (AllIn(s, p7, n, "d") => P(p5, p6, p7))

\* s has the form YYYY/MM/DD <t1> <t2> <s1> <s2>
IsWellFormedLine(s) ==
    HasSlashDate(s) /\ ~EverySplit(s, LAMBDA a, b, c : FALSE)

RECURSIVE Pow10(_)
Pow10(k) == IF k = 0 THEN 1 ELSE 10 * Pow10(k - 1)

DigitValue(c) == CHOOSE v \in 0..9 : Digits[v + 1] = c

\* the integer the decimal digits s[a..b] denote
RECURSIVE Denoted(_, _, _)
Denoted(s, a, b) ==
    IF a > b THEN 0 ELSE DigitValue(s[a]) * Pow10(b - a) + Denoted(s, a + 1, b)

C3_OnlyMatchingLinesInOrder ==
    extracted.done =>
        LET ls == Lines(srcText)
            hit == {i \in 1..Len(ls) : Match(ls[i]).ok}
            rank(i) == Cardinality({j \in hit : j <= i})
        IN  /\ Len(extracted.games) = Cardinality(hit)
            /\ \A i \in hit : extracted.games[rank(i)] = GameOf(Match(ls[i]))

\* a page whose lines are a match, a non-match and a match again
C3_Witness ==
    /\ extracted.done
    /\ Len(extracted.games) = 2
    /\ LET ls == Lines(srcText)
       IN  /\ Len(ls) = 3
           /\ Match(ls[1]).ok /\ ~Match(ls[2]).ok /\ Match(ls[3]).ok
           /\ extracted.games[1].date # extracted.games[2].date

---------------------------------------------------------------------------
(* Claims about the schedule endpoints (checked under Spec).               *)

\* the games the extractor found for the answered request
GamesSeen == IF last.outcome.ok THEN ParseBody(last.outcome.data) ELSE <<>>

ItemsSent == last.response.body.items

\* items is exactly the normalized records of the games satisfying Keep, in order
IsSelection(items, games, Keep(_)) ==
    LET hit == {i \in 1..Len(games) : Keep(games[i])}
        rank(i) == Cardinality({j \in hit : j <= i})
    IN  /\ Len(items) = Cardinality(hit)
        /\ \A i \in hit :
              /\ items[rank(i)].date = games[i].date
              /\ items[rank(i)].home = games[i].team1
              /\ items[rank(i)].away = games[i].team2
              /\ items[rank(i)] = NormalizedOf(games[i])

IsPrefixOf(p, s) == Len(p) <= Len(s) /\ \A j \in 1..Len(p) : s[j] = p[j]

AnsweredNaver == last.req.ep = "naver"

\* C4: with a date parameter the answer holds exactly the extracted games whose
\* date equals it, in extraction order.
C4_DateFilterKeepsExactlyThatDate ==
    (AnsweredNaver /\ Truthy(last.req.date)) =>
        /\ last.response.body.kind = "array"
        /\ IsSelection(ItemsSent, GamesSeen, LAMBDA g : g.date = last.req.date.str)

\* one game on the requested date, another on a different date: a singleton
C4_Witness ==
    /\ AnsweredNaver
    /\ last.req.date = Str(Oct31)
    /\ Len(GamesSeen) = 2
    /\ GamesSeen[1].date # Oct31
    /\ GamesSeen[2].date = Oct31
    /\ Len(ItemsSent) = 1
    /\ ItemsSent[1].date = Oct31

\* C5: with a month parameter and no date the answer holds exactly the
\* extracted games whose date has the month as a prefix, in extraction order.
C5_MonthFilterKeepsExactlyThatPrefix ==
    (AnsweredNaver /\ ~Truthy(last.req.date) /\ Truthy(last.req.month)) =>
        /\ last.response.body.kind = "array"
        /\ IsSelection(ItemsSent, GamesSeen,
                       LAMBDA g : IsPrefixOf(last.req.month.str, g.date))

\* month 2025-10 over a page with a November game and an October game
C5_Witness ==
    /\ AnsweredNaver
    /\ last.req.date = Undefined
    /\ last.req.month = Str(Oct)
    /\ Len(GamesSeen) = 2
    /\ GamesSeen[1].date = Nov01
    /\ Len(ItemsSent) = 1
    /\ ItemsSent[1].date = Oct31

\* C6: with both date and month the answer is the one the same request gets
\* with month omitted.
C6_DateTakesPrecedenceOverMonth ==
    (AnsweredNaver /\ Truthy(last.req.date) /\ Truthy(last.req.month)) =>
        last.response \in
            NaverHandler(Request("naver", last.req.date, Undefined), last.outcome)

\* date 2025-11-01 with month 2025-10, and the November game is answered
C6_Witness ==
    /\ AnsweredNaver
    /\ last.req.date = Str(Nov01)
    /\ last.req.month = Str(Oct)
    /\ Len(GamesSeen) = 2
    /\ Len(ItemsSent) = 1
    /\ ItemsSent[1].date = Nov01

\* C7: with neither parameter the answer has one record per extracted game, in
\* the same order; no date is defaulted.
C7_NoFilterPassesThrough ==
    (AnsweredNaver /\ ~Truthy(last.req.date) /\ ~Truthy(last.req.month)) =>
        /\ last.response.body.kind = "array"
        /\ Len(ItemsSent) = Len(GamesSeen)
        /\ \A i \in 1..Len(GamesSeen) : ItemsSent[i] = NormalizedOf(GamesSeen[i])

\* no parameter, games of two different dates, both answered
C7_Witness ==
    /\ AnsweredNaver
    /\ last.req.date = Undefined
    /\ last.req.month = Undefined
    /\ Len(ItemsSent) = 2
    /\ ItemsSent[1].date # ItemsSent[2].date

FetchFailed == ~last.outcome.ok /\ last.outcome.cause # "nofetch"

\* C8: when the GET fails, naver answers [], aiscore answers {games: []}, html
\* answers a failure status with its static message; no handler ends in an
\* unhandled rejection.
C8_FetchFailureGivesDegradedPayload ==
    /\ last.response.body.kind # "unhandled"
    /\ FetchFailed =>
          /\ last.req.ep = "naver" => last.response = JsonArray(<<>>)
          /\ last.req.ep = "aiscore" => last.response = JsonGames(<<>>)
          /\ last.req.ep = "html" =>
                /\ last.response.status = 500
                /\ last.response.body.kind = "message"
                /\ last.response.body.message = MsgCrawlFailed

\* an html request whose GET was refused by the source
C8_Witness ==
    /\ last.req.ep = "html"
    /\ last.outcome = Rejected("status")
    /\ last.response.status = 500

\* C9 as stated: every answer of naver and html is a list of game records.
C9_AlwaysAList ==
    last.req.ep \in {"naver", "html"} => last.response.body.kind = "array"

\* C9 as amended: naver always answers a list; html answers a list exactly
\* when its fetch and parse succeeded, and a {message} object with status 400
\* or 500 otherwise.
C9_ListUnlessHtmlFails ==
    /\ AnsweredNaver =>
          last.response.status = 200 /\ last.response.body.kind = "array"
    /\ last.req.ep = "html" =>
          /\ last.outcome.ok =>
                /\ last.response.status = 200
                /\ last.response.body.kind = "array"
                /\ Len(ItemsSent) = Len(last.outcome.data)
          /\ ~last.outcome.ok =>
                /\ last.response.status \in {400, 500}
                /\ last.response.body.kind = "message"

\* naver answering the empty list after a failed GET
C9_Witness ==
    /\ AnsweredNaver
    /\ FetchFailed
    /\ last.response.body.kind = "array"
    /\ ItemsSent = <<>>

NoDateHtml(req) == req.ep = "html" /\ ~Truthy(req.date)

\* C10: an html request without date is answered 400 with the static message
\* and no GET goes out for it: no such request is ever suspended on a GET, and
\* the step that receives one leaves the number of GETs unchanged.
C10_MissingDateIs400WithoutFetch ==
    /\ [](\A req \in BagToSet(inflight) : ~NoDateHtml(req))
    /\ [](NoDateHtml(last.req) => last.response = JsonMessage(400, MsgDateRequired))
    /\ [][(received' = received + 1 /\ inflight' = inflight) =>
            (NoDateHtml(last'.req) /\ fetches' = fetches)]_vars

\* the first request is an html request without date, answered 400, no GET yet
C10_Witness ==
    /\ NoDateHtml(last.req)
    /\ last.response.status = 400
    /\ received = 1
    /\ fetches = 0

\* some request joins the suspended ones in this step: it reached axios.get
ReachesFetcher ==
    \E req \in BagToSet(inflight') : inflight' = inflight (+) SetToBag({req})

\* C11: a request that reaches the fetcher sends exactly one GET, also when an
\* identical request is in flight or was answered before, and the settling of
\* a GET (with a page or with a failure) sends none: from no GET at the start,
\* the number of GETs is the number of requests that reached the fetcher.
C11_OneFetchPerRequest ==
    /\ fetches = 0 /\ inflight = EmptyBag
    /\ [][IF ReachesFetcher THEN fetches' = fetches + 1 ELSE fetches' = fetches]_vars
    /\ [](fetches <= received /\ BagCardinality(inflight) <= fetches)

\* two identical requests are in flight and two GETs have gone out
C11_Witness ==
    /\ fetches = 2
    /\ \E req \in BagToSet(inflight) : CopiesIn(req, inflight) = 2

Endpoints == {"naver", "aiscore", "html"}

\* the requests the endpoints may receive
Requests == {Request(ep, date, month) : ep \in Endpoints, date \in DateParams, month \in MonthParams}

\* C12: the GET of every suspended schedule request has a timeout armed, and
\* whatever the source does every suspended request is answered in the end.
C12_EveryRequestIsAnswered ==
    /\ [](\A req \in BagToSet(inflight) : TimeoutMs(req.ep) > 0)
    /\ \A req \in Requests : \A k \in 1..MaxRequests :
          (CopiesIn(req, inflight) >= k) ~> (CopiesIn(req, inflight) < k)

\* the html endpoint answered with the records of a fetched page
AnsweredHtmlPage == last.req.ep = "html" /\ last.outcome.ok

\* the .schedule_list elements of that page
NodesSeen == last.outcome.data

\* a non-empty run of decimal digits
IsNumeric(s) == s # <<>> /\ \A j \in 1..Len(s) : IsDigit(s[j])

\* "<home> - <away>"
ScoreText(home, away) == home \o <<SP, Dash, SP>> \o away

\* C13: a returned record has a non-empty score only when a numeric home score
\* and a numeric away score were seen in the source, and then the score reads
\* "<home> - <away>"; in every other case its score is the empty string.
C13_ScoreOnlyFromNumericScores ==
    /\ AnsweredNaver =>
          \A i \in 1..Len(ItemsSent) :
              \E j \in 1..Len(GamesSeen) :
                  /\ ItemsSent[i].date = GamesSeen[j].date
                  /\ ItemsSent[i].score =
                        ScoreText(NumberToString(GamesSeen[j].score1),
                                  NumberToString(GamesSeen[j].score2))
                  /\ \E a, b \in 0..99 :
                        ItemsSent[i].score = ScoreText(NumberToString(a), NumberToString(b))
    /\ AnsweredHtmlPage =>
          \A i \in 1..Len(ItemsSent) :
              LET homeScore == Trim(NodesSeen[i].homeScore)
                  awayScore == Trim(NodesSeen[i].awayScore)
              IN  IF IsNumeric(homeScore) /\ IsNumeric(awayScore)
                  THEN ItemsSent[i].score = ScoreText(homeScore, awayScore)
                  ELSE ItemsSent[i].score = <<>>

\* YYYY-MM-DD: four, two and two digits joined by dashes
IsWellFormedDate(s) ==
    /\ Len(s) = 10
    /\ \A j \in {1, 2, 3, 4, 6, 7, 9, 10} : IsDigit(s[j])
    /\ s[5] = Dash /\ s[8] = Dash

\* C14: the date of every record an endpoint returns is a well-formed
\* YYYY-MM-DD string, whatever the query and the source content.
C14_DateIsWellFormed ==
    last.response.body.kind \in {"array", "games"} =>
        \A i \in 1..Len(ItemsSent) : IsWellFormedDate(ItemsSent[i].date)

\* C15: a record of the DOM-selector strategy is finished with a non-empty
\* score exactly when the home and the away score text (trimmed, as the crawler
\* reads them) are both non-empty; otherwise it is scheduled with an empty score.
C15_FinishedExactlyWhenBothScores ==
    AnsweredHtmlPage =>
        /\ Len(ItemsSent) = Len(NodesSeen)
        /\ \A i \in 1..Len(ItemsSent) :
              LET both == /\ Trim(NodesSeen[i].homeScore) # <<>>
                          /\ Trim(NodesSeen[i].awayScore) # <<>>
                  finished == /\ ItemsSent[i].status = StatusFinished
                              /\ ItemsSent[i].score # <<>>
                  scheduled == /\ ItemsSent[i].status = StatusScheduled
                               /\ ItemsSent[i].score = <<>>
              IN  (both /\ finished) \/ (~both /\ scheduled)

\* a page with a finished game and a node that has a home score only
C15_Witness ==
    /\ AnsweredHtmlPage
    /\ Len(ItemsSent) = 2
    /\ NodesSeen[1] = FinishedNode
    /\ ItemsSent[1].status = StatusFinished
    /\ ItemsSent[1].score = <<"3", SP, Dash, SP, "2">>
    /\ NodesSeen[2] = PartialNode
    /\ ItemsSent[2].status = StatusScheduled
    /\ ItemsSent[2].score = <<>>

\* C16: no record of the text-pattern or of the DOM-selector strategy has an
\* empty home or away team name; a node without a team name yields no record.
C16_NoRecordWithoutTeamName ==
    /\ AnsweredNaver =>
          \A i \in 1..Len(ItemsSent) : ItemsSent[i].home # <<>> /\ ItemsSent[i].away # <<>>
    /\ last.req.ep = "aiscore" =>
          \A i \in 1..Len(ItemsSent) : ItemsSent[i].team1 # <<>> /\ ItemsSent[i].team2 # <<>>
    /\ AnsweredHtmlPage =>
          /\ \A i \in 1..Len(ItemsSent) : ItemsSent[i].home # <<>> /\ ItemsSent[i].away # <<>>
          /\ Len(ItemsSent) =
                Cardinality({i \in 1..Len(NodesSeen) :
                                Trim(NodesSeen[i].home) # <<>> /\ Trim(NodesSeen[i].away) # <<>>})

---------------------------------------------------------------------------
(* Claims about the normalizing map (checked under SpecExtract).           *)

\* C17 as stated: the normalizing map applied to a record that is already a
\* NormalizedGame yields the same record.
C17_MapFixesNormalizedGames ==
    extracted.done =>
        \A i \in 1..Len(extracted.normalized) :
            NormalizedOf(extracted.normalized[i]) = extracted.normalized[i]

\* the two numbers a score "<a> - <b>" is made of
ScoreNumbers(score) ==
    LET parts == Split(score, Dash)
    IN  [i \in 1..Len(parts) |-> ToNumber(Trim(parts[i]))]

\* the raw record made of the constituent fields of the NormalizedGame n
FieldsOf(n) ==
    [date |-> n.date, team1 |-> n.home, team2 |-> n.away,
     score1 |-> ScoreNumbers(n.score)[1], score2 |-> ScoreNumbers(n.score)[2]]

\* C17 as amended: normalizing the raw record made of a NormalizedGame's
\* date, home, away and the two numbers of its score yields the same record;
\* the map applied to the NormalizedGame itself yields a record without home
\* and away whose score is "undefined - undefined".
C17_RenormalizingFieldsIsIdentity ==
    extracted.done =>
        \A i \in 1..Len(extracted.normalized) :
            LET n == extracted.normalized[i]
            IN  /\ Len(ScoreNumbers(n.score)) = 2
                /\ NormalizedOf(FieldsOf(n)) = n
                /\ DOMAIN NormalizedOf(n) = DOMAIN n \ {"home", "away"}
                /\ NormalizedOf(n).date = n.date
                /\ NormalizedOf(n).score =
                      <<"u", "n", "d", "e", "f", "i", "n", "e", "d", SP, Dash, SP,
                        "u", "n", "d", "e", "f", "i", "n", "e", "d">>

\* the line with scores 10 and 07 has been normalized to score "10 - 7"
C17_Witness ==
    /\ extracted.done
    /\ Len(extracted.normalized) = 1
    /\ extracted.games[1].team1 # extracted.games[1].team2
    /\ extracted.normalized[1].score = <<"1", "0", SP, Dash, SP, "7">>
    /\ FieldsOf(extracted.normalized[1]) = extracted.games[1]

---------------------------------------------------------------------------
(* Claims about the chat relay (checked under SpecChat).                   *)

Min(a, b) == IF a <= b THEN a ELSE b

\* C18: whatever events the sockets have sent, the chat history holds at most
\* MAX_CHAT_HISTORY messages in every state, and a response of GET
\* /api/chat/history is the history as a completed handler left it, never the
\* history between its push and its trim.
C18_HistoryNeverExceedsCap ==
    /\ Len(chatHistory) <= MAX_CHAT_HISTORY
    /\ sent.kind = "response" =>
          /\ Len(sent.items) <= MAX_CHAT_HISTORY
          /\ sent.items = chatHistory

\* the history read when two sockets are connected and two messages more than
\* the cap have been handled
C18_Witness ==
    /\ sent.kind = "response"
    /\ Len(sent.items) = MAX_CHAT_HISTORY
    /\ Len(emitted) = MAX_CHAT_HISTORY + 2
    /\ Cardinality(connected) = 2

\* C19: in the revision with history, after n events have been handled the
\* history is the last min(n, MAX_CHAT_HISTORY) messages in the order
\* received: the texts are those of events n - min + 1 .. n, each message is
\* the one built from its event, none twice, none missing, none out of place.
C19_HistoryIsTheLastMessages ==
    (running /\ revision = "history") =>
        LET n == events
            kept == Min(n, MAX_CHAT_HISTORY)
        IN  /\ Len(chatHistory) = kept
            /\ \A i \in 1..kept :
                  /\ chatHistory[i].text = n - kept + i
                  /\ chatHistory[i] = emitted[n - kept + i]

\* three messages have been evicted: the history starts with the fourth
C19_Witness ==
    /\ running
    /\ revision = "history"
    /\ events = MAX_CHAT_HISTORY + 2
    /\ Len(chatHistory) = MAX_CHAT_HISTORY
    /\ chatHistory[1].text = 3
    /\ chatHistory[MAX_CHAT_HISTORY].text = MAX_CHAT_HISTORY + 2

\* C20: every chat:message event received has caused exactly one broadcast,
\* the broadcasts are in the order of the events, and in the revision with
\* history the messages broadcast are the messages appended to the history.
C20_OneBroadcastPerEvent ==
    /\ Len(emitted) = events
    /\ revision = "relay" =>
          \A k \in 1..Len(emitted) : emitted[k] \in ChatPayloads(k)
    /\ revision = "history" =>
          /\ \A k \in 1..Len(emitted) : emitted[k].text = k
          /\ chatHistory = SliceLast(emitted, MAX_CHAT_HISTORY)

---------------------------------------------------------------------------
(* Statelessness of the schedule pipeline (checked under Spec).            *)

\* what an endpoint may answer to req when its own GET settled with outcome,
\* computed from these two alone
ResponsesOf(req, outcome) ==
    CASE req.ep = "naver" -> NaverHandler(req, outcome)
      [] req.ep = "aiscore" -> {AiscoreHandler(outcome)}
      [] req.ep = "html" -> {HtmlHandler(req, outcome)}

\* C21: in every state of every interleaving of requests and settled GETs, the
\* answer given last is the one answer its own query parameters and the
\* outcome of its own GET determine, whatever other requests were received,
\* are in flight or were answered before.
C21_AnswerDependsOnOwnRequestOnly ==
    last.req.ep \in Endpoints =>
        /\ Cardinality(ResponsesOf(last.req, last.outcome)) = 1
        /\ last.response \in ResponsesOf(last.req, last.outcome)

\* a request for 2025-10-31 is answered from its own page while a request for
\* 2025-11-01, received first or second, is still in flight
C21_Witness ==
    /\ AnsweredNaver
    /\ last.req.date = Str(Oct31)
    /\ Len(GamesSeen) = 2
    /\ Len(ItemsSent) = 1
    /\ received = 2
    /\ BagIn(Request("naver", Str(Nov01), Undefined), inflight)

---------------------------------------------------------------------------
(* Claims about posts (checked under SpecPosts).                           *)

\* GET /api/posts/popular
IsPopularRequest(c) == c.method = "GET" /\ c.path = <<"api", "posts", "popular">>

\* revision b registers a handler for GET /api/posts/popular
RegistersPopular(b) == \E k \in 1..Len(Routes(b)) : Routes(b)[k][3] = "popular"

\* rows are in the order likes descending, then views descending
IsByLikesThenViews(rows) ==
    \A k \in 1..(Len(rows) - 1) :
        \/ rows[k].likes > rows[k + 1].likes
        \/ rows[k].likes = rows[k + 1].likes /\ rows[k].views >= rows[k + 1].views

\* C22: in every revision that registers GET /api/posts/popular, every such
\* request is run by the popular handler and not by the handler of
\* /api/posts/:id, is never answered 404, and its answer holds at most 5 posts
\* ordered by likes descending, then views descending.
C22_PopularIsServedByPopularHandler ==
    RegistersPopular(build) =>
        \A i \in 1..Len(calls) :
            IsPopularRequest(calls[i]) =>
                /\ calls[i].op = "popular"
                /\ calls[i].status # 404
                /\ calls[i].status = 200 =>
                      /\ Len(calls[i].rows) <= 5
                      /\ IsByLikesThenViews(calls[i].rows)

\* the view counter of post id when the run starts
ViewsAtStart(id) == (CHOOSE p \in UNION PostTables : p.id = id).views

\* the GET /api/posts/:id calls of post id whose UPDATE of views has run
ViewsCounted(id) ==
    {i \in 1..Len(calls) :
        /\ calls[i].op = "getPost" /\ calls[i].id = id
        /\ calls[i].status = 200 \/ (build # "final" /\ calls[i].status = 0 /\ calls[i].pc = 2)}

\* C27: the view counter of a post is its value at the start plus one for each
\* GET /api/posts/:id of the post that has counted its view (exactly one
\* increment per successful request, none for a request answered 404), and the
\* views in the answer of a successful request include the request's own
\* increment: they are at least the value at the start plus one.
C27_EveryViewIsCountedAndShown ==
    /\ \A p \in posts : p.views = ViewsAtStart(p.id) + Cardinality(ViewsCounted(p.id))
    /\ \A i \in 1..Len(calls) :
           calls[i].op = "getPost" =>
               /\ calls[i].status = 200 =>
                     calls[i].rows[1].views >= ViewsAtStart(calls[i].id) + 1
               /\ calls[i].status = 404 => calls[i].id \notin {p.id : p \in posts}

\* posts without the view counters, which GET /api/posts/:id moves
Unviewed(table) == {[p EXCEPT !.views = 0] : p \in table}

\* a step of call i, a PUT or DELETE of a post: it changes posts only when the
\* request's password equals the stored password of the post; with another
\* password it answers 403, with the id of no post 404 (403 in the final
\* revision), and in both cases posts stays as it is
PostEditStep(i) ==
    LET c == calls[i]
        rows == {p \in posts : p.id = c.id}
    IN  c.op \in {"putPost", "deletePost"} /\ calls'[i] # c =>
            /\ posts' # posts => \E p \in rows : p.password = c.body.password
            /\ c.pc = 1 /\ rows = {} =>
                  /\ calls'[i].status = IF build = "final" THEN 403 ELSE 404
                  /\ posts' = posts
            /\ c.pc = 1 /\ rows # {} /\ (\A p \in rows : p.password # c.body.password) =>
                  /\ calls'[i].status = 403
                  /\ posts' = posts

\* C25: PUT and DELETE /api/posts/:id change or remove a post only when the
\* request's password equals the stored password of that post; a request with
\* another password is answered 403 and one for an id without post is answered
\* 404 or 403, and these leave posts unchanged; nothing else changes a post
\* but for its view counter.
C25_PostsChangeOnlyWithTheirPassword ==
    [][/\ \A i \in 1..Len(calls) : PostEditStep(i)
       /\ Unviewed(posts') # Unviewed(posts) =>
             \E i \in 1..Len(calls) :
                 /\ calls[i].op \in {"putPost", "deletePost"}
                 /\ calls'[i] # calls[i]]_vars

\* post 1 was retitled by a PUT with its password pw1 after a PUT with pw2 was
\* answered 403
C25_Witness ==
    /\ Len(calls) = 2
    /\ calls[1].op = "putPost" /\ calls[1].body.password = "pw2" /\ calls[1].status = 403
    /\ calls[2].op = "putPost" /\ calls[2].body.password = "pw1" /\ calls[2].status = 200
    /\ \E p \in posts : p.id = 1 /\ p.title = "t2"

---------------------------------------------------------------------------
(* Claims about users (checked under SpecUsers).                           *)

\* call c is a registration that was answered with success
RegisteredOk(c) == c.op = "register" /\ c.status \in {200, 201}

\* no DELETE FROM users has run: no deleteUser call was answered with success
NoDeletion == \A i \in 1..Len(calls) : calls[i].op = "deleteUser" => calls[i].status # 200

\* the users table holds at most one row per username, and as long as no
\* account was deleted at most one registration per username was answered
\* with success
OneUserPerUsername ==
    /\ \A u1 \in users : \A u2 \in users : u1.username = u2.username => u1 = u2
    /\ NoDeletion =>
          \A i \in 1..Len(calls) : \A j \in 1..Len(calls) :
              /\ RegisteredOk(calls[i]) /\ RegisteredOk(calls[j])
              /\ calls[i].body.username = calls[j].body.username
              => i = j

\* a step of a registration: one whose first query finds the username answers
\* 409 and leaves users as it is; one that answers success found no row of that
\* username and inserts exactly one; any other leaves users as it is
RegistrationStep(i) ==
    LET c == calls[i]
        existing == {u \in users : u.username = c.body.username}
    IN  c.op = "register" /\ calls'[i] # c =>
            /\ c.pc = 1 /\ existing # {} => calls'[i].status = 409 /\ users' = users
            /\ IF RegisteredOk(calls'[i])
               THEN /\ existing = {}
                    /\ \E id \in 1..(MaxCalls + 1) :
                           users' = users \cup {User(id, c.body.username, c.body.password)}
                    /\ Cardinality(users') = Cardinality(users) + 1
               ELSE users' = users

\* C23: through every interleaving of the queries of registrations (and of
\* logins, password changes and deletions) the users table holds at most one
\* user per username; a registration for a username that exists answers 409
\* and inserts nothing; of the registrations of one new username at most one
\* is answered with success, the others insert nothing.
C23_AtMostOneUserPerUsername ==
    /\ []OneUserPerUsername
    /\ [][\A i \in 1..Len(calls) : RegistrationStep(i)]_vars

\* two registrations of lee ran concurrently: both found no row, one inserted
\* and was answered with success, the INSERT of the other failed
C23_Witness ==
    /\ Len(calls) = 2
    /\ calls[1].op = "register" /\ calls[2].op = "register"
    /\ calls[1].body.username = "lee" /\ calls[2].body.username = "lee"
    /\ RegisteredOk(calls[1])
    /\ calls[2].status = 500
    /\ Cardinality({u \in users : u.username = "lee"}) = 1

\* the ids of the rows of table
IdsOf(table) == {r.id : r \in table}

\* POST /api/login with this username and password would be answered with
\* success: a row of users holds both
LoginSucceeds(table, username, password) ==
    \E u \in table : u.username = username /\ u.password = password

\* a step of call i, a password change: it changes a stored password only of
\* the user of its username and only when its oldPassword is the stored
\* password; when its first query finds no user of that username with that
\* password it answers 400 and leaves users as it is; when it answers success,
\* login succeeds with newPassword and, if oldPassword differs, fails with it
PasswordChangeStep(i) ==
    LET c == calls[i]
    IN  c.op = "changePassword" /\ calls'[i] # c =>
            /\ \A u \in users : \A v \in users' :
                   u.id = v.id /\ u.password # v.password =>
                       u.username = c.body.username /\ u.password = c.body.password
            /\ c.pc = 1 /\ ~LoginSucceeds(users, c.body.username, c.body.password) =>
                   calls'[i].status = 400 /\ users' = users
            /\ calls'[i].status = 200 =>
                   /\ LoginSucceeds(users', c.body.username, c.body.newPassword)
                   /\ c.body.password # c.body.newPassword =>
                          ~LoginSucceeds(users', c.body.username, c.body.password)

\* C28: the stored password of a user changes only in a step of a
\* password-change request for that user whose oldPassword equals the stored
\* password at that moment; a request with a wrong oldPassword or an unknown
\* username is answered 400 and leaves users unchanged; once a change is
\* answered with success, login succeeds with newPassword and fails with an
\* oldPassword that differs from it.
C28_PasswordChangesOnlyWithOldPassword ==
    [][/\ \A i \in 1..Len(calls) : PasswordChangeStep(i)
       /\ (\E u \in users : \E v \in users' : u.id = v.id /\ u.password # v.password) =>
             \E i \in 1..Len(calls) :
                 calls[i].op = "changePassword" /\ calls'[i] # calls[i]]_vars

\* C29: a step removes a row of users only if it is a step of an account
\* deletion whose username and password are those of the row; a deletion
\* request without password or with a password that is not the stored one is
\* rejected (answered 400) and leaves users unchanged.
C29_DeletionNeedsThePassword ==
    [][/\ (\E u \in users : u.id \notin IdsOf(users')) =>
             \E j \in 1..Len(calls) :
                 /\ calls[j].op = "deleteUser" /\ calls'[j] # calls[j]
                 /\ \A u \in users :
                        u.id \notin IdsOf(users') =>
                            /\ u.username = calls[j].body.username
                            /\ u.password = calls[j].body.password
       /\ \A i \in 1..Len(calls') :
             /\ calls'[i].op = "deleteUser" /\ calls'[i].status # 0
             /\ i > Len(calls) \/ calls[i].status = 0
             /\ ~LoginSucceeds(users, calls'[i].body.username, calls'[i].body.password)
             => calls'[i].status = 400 /\ users' = users]_vars

---------------------------------------------------------------------------
(* Claims about likes (checked under SpecLikes).                           *)

\* the number of post_likes rows of post id
LikeRowsOf(id) ==
    BagCardinality([row \in {r \in BagToSet(post_likes) : r.post_id = id} |->
                       CopiesIn(row, post_likes)])

\* the calls that have inserted their post_likes row for post id and have not
\* yet run their UPDATE of likes
LikesUnderway(id) ==
    Cardinality({i \in 1..Len(calls) : Pending(i, "like") /\ calls[i].id = id /\ calls[i].pc = 4})

\* C24: in the final revision every (post, user) pair has at most one
\* post_likes row, and the likes of a post (none at the start) is the number of
\* its post_likes rows whose UPDATE has run: one increment per row, so no user
\* raises the likes of a post twice, whether the requests repeat or overlap.
C24_OneLikePerUserAndPost ==
    build = "final" =>
        /\ \A row \in BagToSet(post_likes) : CopiesIn(row, post_likes) = 1
        /\ \A p \in posts : p.likes + LikesUnderway(p.id) = LikeRowsOf(p.id)

\* C30: every step of a like request that names the id of no post leaves posts
\* and post_likes as they are, and the request is answered with an error
\* status.
C30_LikeOfNoPostChangesNothing ==
    [][\A i \in 1..Len(calls) :
          /\ calls[i].op = "like" /\ calls'[i] # calls[i]
          /\ calls[i].id \notin IdsOf(posts)
          => /\ posts' = posts
             /\ post_likes' = post_likes
             /\ calls'[i].status # 0 => calls'[i].status >= 400]_vars

---------------------------------------------------------------------------
(* Claims about comments (checked under SpecComments).                     *)

\* comment id of table with its replies, their replies and so on
TreeOf(id, table) ==
    LET tree[n \in 0..Cardinality(table)] ==
            IF n = 0 THEN {r \in table : r.id = id}
            ELSE LET before == tree[n - 1]
                 IN  before \cup {r \in table : \E d \in before : r.parent_id = d.id}
    IN  tree[Cardinality(table)]

\* C26: the step in which DELETE /api/comments/:id of an existing comment c
\* succeeds leaves neither c nor a comment whose parent_id is c, leaves no
\* comment whose parent_id names a comment the step removed (no orphaned reply
\* at any depth), and leaves every comment outside the tree of c as it was.
C26_DeleteLeavesNoOrphans ==
    [][\A i \in 1..Len(calls) :
          /\ calls[i].op = "deleteComment"
          /\ calls[i].status = 0 /\ calls'[i].status = 200
          /\ calls[i].id \in IdsOf(comments)
          => /\ calls[i].id \notin IdsOf(comments')
             /\ \A r \in comments' : r.parent_id # calls[i].id
             /\ \A r \in comments' :
                    r.parent_id \in IdsOf(comments) => r.parent_id \in IdsOf(comments')
             /\ \A r \in comments : r \notin TreeOf(calls[i].id, comments) => r \in comments'
             /\ comments' \subseteq comments]_vars

=============================================================================
